---- MODULE Spec2Model ----
(***************************************************************************)
(* A model of the dmg-rs Game Boy core: the memory map unit with its       *)
(* cartridge (mmu.rs, cartridge.rs), the pixel processing unit (ppu.rs)    *)
(* as the coordinator of dmg.rs paces it, and the LR35902 step function    *)
(* (lr35902.rs).  Bytes are integers 0..255 and words 0..65535; the        *)
(* arithmetic keeps the width of the Rust types.                           *)
(***************************************************************************)
EXTENDS Integers, Sequences, FiniteSets, TLC

VARIABLES
    mmu,          \* MemoryMapUnit: memory array, cartridge, panic marker
    hist,         \* observer of the MMU operations (not program state)
    ppu,          \* PixelProcessingUnit fields and its frame channel
    cpu,          \* LR35902 fields (control part of the register file)
    obs,          \* observer of the CPU and PPU steps (not program state)
    image,        \* a ROM file and what constructing a cartridge from it gave
    timer,        \* Timer fields
    joypad,       \* Joypad fields
    dmg           \* DotMatrixGame: channels, step mode, position in start_game

vars == <<mmu, hist, ppu, cpu, obs, image, timer, joypad, dmg>>

\* the variables of the parts added to the core of MMU, PPU and CPU
rest == <<image, timer, joypad, dmg>>

----------------------------------------------------------------------------
(* Fixed-width arithmetic.                                                 *)

Byte == 0..255

Bit(x, n) == (x \div (2 ^ n)) % 2

\* x & y on 8-bit values, from bit n up
RECURSIVE AndBits(_, _, _)
AndBits(x, y, n) ==
    IF n > 7 THEN 0
    ELSE Bit(x, n) * Bit(y, n) * (2 ^ n) + AndBits(x, y, n + 1)

And8(x, y) == AndBits(x, y, 0)

\* x | y on 8-bit values
Or8(x, y) == x + y - And8(x, y)

\* x & !y on 8-bit values
AndNot8(x, y) == And8(x, 255 - y)

Lo(w) == w % 256
Hi(w) == (w \div 256) % 256
Word(lo, hi) == lo + 256 * hi

----------------------------------------------------------------------------
(* Contents of the two read-only images.  The boot ROM is the 256-byte     *)
(* file compiled into the MMU, the cartridge ROM is the file given on the  *)
(* command line; any contents are possible, the model fixes two patterns   *)
(* that differ at every address of the overlay.                            *)

BootRomByte(a) == 255 - a
RomByte(off) == (off + (off \div 256)) % 128

----------------------------------------------------------------------------
(* Addresses the model keeps track of.  The memory array has 0x10000       *)
(* cells; the model stores the cells listed here, which cover every        *)
(* region of the map and the pages an OAM DMA reads and writes.            *)

DmaOffsets == {0, 1, 159, 160, 255}   \* first, second, 160th, 161st, last

WramPage == \hC100
OamBase == \hFE00
IoBase == \hFF00

MemAddrs ==
    {\h8000, \h9FFF, \hC000, \hC001, \hDFFF, \hE000, \hFDFF}
    \cup {WramPage + o : o \in DmaOffsets}
    \cup {OamBase + o : o \in DmaOffsets}
    \cup {IoBase + o : o \in DmaOffsets}
    \cup {\hFF04, \hFF05, \hFF06, \hFF07, \hFF0F, \hFF10}
    \cup {\hFF40, \hFF41, \hFF42, \hFF43, \hFF44, \hFF45, \hFF46, \hFF47}
    \cup {\hFF50, \hFF80}
    \cup (\hFFF8 .. \hFFFF)

CartRamOffsets == {0, \h1FFF}
CartRamIndexes == {b * \h2000 + o : b \in 0..3, o \in CartRamOffsets}

----------------------------------------------------------------------------
(* Cartridge (cartridge.rs).                                               *)

\* CartridgeROM::new: 8 KiB of RAM, a ROM of at least 0x8000 bytes.
CartridgeROM_new ==
    [kind |-> "ROM", rom_len |-> \h8000, ram_len |-> \h2000,
     ram |-> [i \in CartRamIndexes |-> 0],
     selected_rom_bank |-> 0, selected_ram_bank |-> 0]

\* CartridgeMBC1::new: RAM sized by header byte 0149, ROM bank 1 selected.
MBC1RamLen(ram_size) ==
    CASE ram_size = 0 -> 0
      [] ram_size = 2 -> \h2000
      [] ram_size = 3 -> \h4000
      [] ram_size = 4 -> \h20000
      [] ram_size = 5 -> \h10000

CartridgeMBC1_new(rom_len, ram_size) ==
    [kind |-> "MBC1", rom_len |-> rom_len, ram_len |-> MBC1RamLen(ram_size),
     ram |-> [i \in CartRamIndexes |-> 0],
     selected_rom_bank |-> 1, selected_ram_bank |-> 0]

InRom(a) == a >= 0 /\ a <= \h7FFF
InCartRam(a) == a >= \hA000 /\ a <= \hBFFF
InCartridge(a) == InRom(a) \/ InCartRam(a)

\* index into the RAM vector that ram_read_8 / ram_write_8 compute
RamIndex(c, a) ==
    IF c.kind = "ROM" THEN a - \hA000
    ELSE c.selected_ram_bank * \h2000 + a - \hA000

\* index into the ROM vector that rom_read_8 computes
RomIndex(c, a) == c.selected_rom_bank * \h4000 + a - \h4000

\* Cartridge::read_8 ends in a panic (vector index out of bounds, or the
\* unreachable!() arm of CartridgeMBC1::read_8)
cart_read_panics(c, a) ==
    IF c.kind = "ROM" THEN FALSE
    ELSE \/ a >= \h2000 /\ a <= \h3FFF
         \/ a >= \h4000 /\ a <= \h7FFF /\ RomIndex(c, a) >= c.rom_len
         \/ InCartRam(a) /\ RamIndex(c, a) >= c.ram_len

RamCell(c, i) == IF i \in DOMAIN c.ram THEN c.ram[i] ELSE 0

cart_read_8(c, a) ==
    IF c.kind = "ROM"
    THEN IF InRom(a) THEN RomByte(a) ELSE RamCell(c, RamIndex(c, a))
    ELSE IF a <= \h1FFF THEN RomByte(a)
         ELSE IF InRom(a) THEN RomByte(RomIndex(c, a))
         ELSE RamCell(c, RamIndex(c, a))

\* Cartridge::write_8 ends in a panic (index out of bounds, or the
\* unimplemented!() arm of CartridgeMBC1::write_8)
cart_write_panics(c, a) ==
    IF c.kind = "ROM" THEN FALSE
    ELSE \/ a >= \h6000 /\ a <= \h7FFF
         \/ InCartRam(a) /\ RamIndex(c, a) >= c.ram_len

RamStore(c, i, v) ==
    IF i \in DOMAIN c.ram THEN [c EXCEPT !.ram[i] = v] ELSE c

select_rom_bank(c, value) ==
    LET v == value % 32
    IN  [c EXCEPT !.selected_rom_bank = IF v = 0 THEN 1 ELSE v]

select_ram_bank(c, value) == [c EXCEPT !.selected_ram_bank = value % 4]

cart_write_8(c, a, v) ==
    IF c.kind = "ROM"
    THEN IF InCartRam(a) THEN RamStore(c, RamIndex(c, a), v) ELSE c
    ELSE IF a <= \h1FFF THEN c
         ELSE IF a <= \h3FFF THEN select_rom_bank(c, v)
         ELSE IF a <= \h5FFF THEN select_ram_bank(c, v)
         ELSE RamStore(c, RamIndex(c, a), v)

----------------------------------------------------------------------------
(* Memory map unit (mmu.rs).  An MMU value is a record                     *)
(*   [memory, cartridge, panicked];                                        *)
(* once panicked the thread of the core is gone and nothing changes.       *)

MemoryMapUnit_new(cartridge) ==
    [memory |-> [a \in MemAddrs |-> 0], cartridge |-> cartridge,
     panicked |-> FALSE]

MemCell(m, a) == IF a \in DOMAIN m.memory THEN m.memory[a] ELSE 0

boot_rom_enabled(m) == MemCell(m, \hFF50) = 0

read_panics(m, a) ==
    /\ ~(boot_rom_enabled(m) /\ a <= \hFF)
    /\ InCartridge(a)
    /\ cart_read_panics(m.cartridge, a)

read_8(m, a) ==
    IF boot_rom_enabled(m) /\ a <= \hFF THEN BootRomByte(a)
    ELSE IF InCartridge(a) THEN cart_read_8(m.cartridge, a)
    ELSE IF a = \hFF00 THEN \h0F
    ELSE MemCell(m, a)

\* MemStore, but a store to FF07 keeps the three bits of a timer control
MemStore_masked(m, a, v) ==
    IF a \in DOMAIN m.memory
    THEN [m EXCEPT !.memory[a] = IF a = \hFF07 THEN v % 8 ELSE v]
    ELSE m

MemStore(m, a, v) ==
    IF a \in DOMAIN m.memory THEN [m EXCEPT !.memory[a] = v] ELSE m

\* the arms of write_8 other than the DMA register
write_8_plain(m, a, v) ==
    IF InCartridge(a)
    THEN IF cart_write_panics(m.cartridge, a)
         THEN [m EXCEPT !.panicked = TRUE]
         ELSE [m EXCEPT !.cartridge = cart_write_8(m.cartridge, a, v)]
    ELSE MemStore(m, a, v)

\* number of iterations of the loop of dma_transfer (for i in 0..0x100)
DmaLength == 256

\* The loop body acts on one offset i; the model runs it, in order, for the
\* offsets whose cells it stores (the other iterations move bytes between
\* cells the model does not store).
DmaOffsetSeq == <<0, 1, 159, 160, 255>>

\* one iteration of the loop: the byte at address goes to destination
dma_copy(m, address, destination) ==
    IF read_panics(m, address) THEN [m EXCEPT !.panicked = TRUE]
    ELSE write_8_plain(m, destination, read_8(m, address))

RECURSIVE dma_loop(_, _, _)
dma_loop(m, starting_address, k) ==
    IF k > Len(DmaOffsetSeq) \/ m.panicked THEN m
    ELSE IF DmaOffsetSeq[k] >= DmaLength THEN m
    ELSE dma_loop(dma_copy(m, starting_address + DmaOffsetSeq[k],
                           OamBase + DmaOffsetSeq[k]),
                  starting_address, k + 1)

dma_transfer(m, source) == dma_loop(m, source * 256, 1)

write_8(m, a, v) ==
    IF m.panicked THEN m
    ELSE IF a = \hFF46 THEN dma_transfer(m, v)
    ELSE write_8_plain(m, a, v)

\* Cartridge::write_16: two stores into the RAM vector; the ROM cartridge
\* ignores the other addresses, the MBC1 cartridge has unreachable!() there
cart_write_16_panics(c, a) ==
    IF InCartRam(a) THEN RamIndex(c, a) + 1 >= c.ram_len
    ELSE c.kind = "MBC1"

cart_write_16(c, a, w) ==
    IF InCartRam(a)
    THEN RamStore(RamStore(c, RamIndex(c, a), Lo(w)), RamIndex(c, a) + 1, Hi(w))
    ELSE c

\* write_16 outside the cartridge stores both bytes in the array directly.
\* At address 0xFFFF the u16 sum address + 1 overflows: a build with overflow
\* checks panics, a build without wraps to cell 0 of the array, which no read
\* returns.
write_16(m, a, w, overflow_checks) ==
    IF m.panicked THEN m
    ELSE IF InCartridge(a)
    THEN IF cart_write_16_panics(m.cartridge, a)
         THEN [m EXCEPT !.panicked = TRUE]
         ELSE [m EXCEPT !.cartridge = cart_write_16(m.cartridge, a, w)]
    ELSE IF a = \hFFFF
    THEN IF overflow_checks THEN [m EXCEPT !.panicked = TRUE]
         ELSE MemStore(m, a, Lo(w))
    ELSE MemStore(MemStore(m, a, Lo(w)), a + 1, Hi(w))

read_16(m, a) == Word(read_8(m, a), read_8(m, a + 1))

----------------------------------------------------------------------------
(* Pixel processing unit (ppu.rs).  A PPU value is a record                *)
(*   [mode, line_to_draw, pixel_buffer, sent]                              *)
(* where sent counts the Render messages given to the channel tx and       *)
(* pixel_buffer holds the first pixel of each of the 144 lines: the index  *)
(* 0..3 of a DEFAULT_PALETTE colour, or WHITE for Color32::WHITE (none of  *)
(* the four palette colours is white, graphics.rs 9-14).                   *)

HBlank == 0
VBlank == 1
OAMSearch == 2
PixelTransfer == 3

VBLANKBIT == 1
LCDBIT == 2

LCDC_HBLANK == 8
LCDC_VBLANK == 16
LCDC_OAM == 32
LCDC_LYC == 64

Lines == 0..143

WHITE == 4

PixelProcessingUnit_new ==
    [mode |-> OAMSearch, pixel_buffer |-> [l \in Lines |-> WHITE],
     line_to_draw |-> 0, sent |-> 0]

Has(x, mask) == And8(x, mask) # 0

\* the value trigger_interrupts leaves in IF, from the mode and the three
\* registers it reads
raised_flags(mode, lcdc, int_flag, int_enable) ==
    LET lcd == IF Has(int_enable, LCDBIT) THEN LCDBIT ELSE 0
    IN  CASE mode = HBlank ->
               IF Has(lcdc, LCDC_HBLANK) THEN Or8(int_flag, lcd) ELSE int_flag
          [] mode = VBlank ->
               Or8(IF Has(lcdc, LCDC_VBLANK) THEN Or8(int_flag, lcd) ELSE int_flag,
                   IF Has(int_enable, VBLANKBIT) THEN VBLANKBIT ELSE 0)
          [] mode = OAMSearch ->
               IF Has(lcdc, LCDC_OAM) THEN Or8(int_flag, lcd) ELSE int_flag
          [] OTHER -> int_flag

trigger_interrupts(p, m) ==
    write_8(m, \hFF0F,
            raised_flags(p.mode, read_8(m, \hFF41), read_8(m, \hFF0F),
                         read_8(m, \hFFFF)))

\* the pair the PPU functions return: the PPU and the MMU they leave
PM(p, m) == [ppu |-> p, mmu |-> m]

\* the PPU in its new mode and the MMU after the write of FF41
mode_set(p, m) == PM(p, trigger_interrupts(p, m))

set_mode(p, m, mode) ==
    mode_set([p EXCEPT !.mode = mode],
             write_8(m, \hFF41, Or8(And8(read_8(m, \hFF41), \hFC), mode)))

\* tile data and map bytes come from the copy of VRAM that vram() returns
Vram(m, off) == MemCell(m, \h8000 + off)

\* draw_bg_line indexes bg_data (1024 bytes) and panics beyond it
bg_index_panics(line_to_draw, line_y, scx) ==
    \/ line_to_draw > 143
    \/ (line_y \div 8) * 32 + ((scx + 159) \div 8) >= 1024

draw_bg_line_panics(p, m) ==
    bg_index_panics(p.line_to_draw, read_8(m, \hFF42) + p.line_to_draw,
                    read_8(m, \hFF43))

\* the palette entry of a pixel, from the two bytes of its tile row
pixel_color(px_byte_a, px_byte_b, tile_px_x, palette) ==
    (palette \div (4 ^ (Bit(px_byte_b, 7 - tile_px_x) * 2
                         + Bit(px_byte_a, 7 - tile_px_x)))) % 4

\* the pixel of tile bg_tile at row tile_px_y, column tile_px_x
tile_pixel(m, tile_data, bg_tile, tile_px_y, tile_px_x, palette) ==
    pixel_color(Vram(m, tile_data + bg_tile * 16 + tile_px_y * 2),
                Vram(m, tile_data + bg_tile * 16 + tile_px_y * 2 + 1),
                tile_px_x, palette)

\* the colour draw_bg_line gives pixel i = 0 of the line
bg_pixel(m, line_y, scx) ==
    tile_pixel(m, IF Has(read_8(m, \hFF40), 16) THEN 0 ELSE \h0800,
               Vram(m, \h1800 + (line_y \div 8) * 32 + (scx \div 8)),
               line_y % 8, scx % 8, read_8(m, \hFF47))

draw_bg_line(p, m) ==
    [p EXCEPT !.pixel_buffer[p.line_to_draw] =
                  bg_pixel(m, read_8(m, \hFF42) + p.line_to_draw, read_8(m, \hFF43))]

draw_line_ticks == 172

\* the value the LYC check of draw_line leaves in IF
lyc_flags(int_flag, lcdc, int_enable, ly, lyc) ==
    IF ly = lyc /\ Has(lcdc, LCDC_LYC) /\ Has(int_enable, LCDBIT)
    THEN Or8(int_flag, LCDBIT) ELSE int_flag

\* the LYC check of draw_line, after the write of FF44
lyc_check(m) ==
    write_8(m, \hFF0F,
            lyc_flags(read_8(m, \hFF0F), read_8(m, \hFF41), read_8(m, \hFFFF),
                      read_8(m, \hFF44), read_8(m, \hFF45)))

next_line(p) == [p EXCEPT !.line_to_draw = p.line_to_draw + 1]

draw_line(p, m) ==
    IF draw_bg_line_panics(p, m) THEN PM(p, [m EXCEPT !.panicked = TRUE])
    ELSE PM(next_line(draw_bg_line(p, m)),
            lyc_check(write_8(m, \hFF44, (p.line_to_draw + 1) % 256)))

\* the result of one PPU step: the PPU, the MMU and the ticks returned
Stepped(pm, ticks) == [ppu |-> pm.ppu, mmu |-> pm.mmu, ticks |-> ticks]

step_oam_search_ticks == 80

step_oam_search(p, m) ==
    Stepped(set_mode(p, m, PixelTransfer), step_oam_search_ticks)

\* the send of the Render message, counted in sent
send_render(p) ==
    IF p.line_to_draw >= 144 THEN [p EXCEPT !.sent = p.sent + 1] ELSE p

\* step_pixel_transfer after its call of draw_line
pixel_transfer_end(d) ==
    IF d.mmu.panicked THEN Stepped(d, draw_line_ticks)
    ELSE Stepped(set_mode(send_render(d.ppu), d.mmu, HBlank), draw_line_ticks)

step_pixel_transfer(p, m) == pixel_transfer_end(draw_line(p, m))

step_h_blank_ticks == 204

\* step_h_blank, but entering VBlank one line early
step_h_blank_early(p, m) ==
    IF p.line_to_draw >= 143
    THEN Stepped(set_mode(p, m, VBlank), step_h_blank_ticks)
    ELSE Stepped(set_mode(p, m, OAMSearch), step_h_blank_ticks)

step_h_blank(p, m) ==
    IF p.line_to_draw >= 144
    THEN Stepped(set_mode(p, m, VBlank), step_h_blank_ticks)
    ELSE Stepped(set_mode(p, m, OAMSearch), step_h_blank_ticks)

step_v_blank_ticks == 456
LastLine == 153

\* step_v_blank after the increment of line_to_draw
v_blank_wrap(p, m) ==
    IF p.line_to_draw > LastLine
    THEN set_mode([p EXCEPT !.line_to_draw = 0], m, OAMSearch)
    ELSE PM(p, m)

\* the write of FF44 that ends step_v_blank
v_blank_end(pm) ==
    Stepped(PM(pm.ppu, write_8(pm.mmu, \hFF44, pm.ppu.line_to_draw % 256)),
            step_v_blank_ticks)

step_v_blank(p, m) == v_blank_end(v_blank_wrap(next_line(p), m))

ppu_step(p, m) ==
    CASE p.mode = OAMSearch -> step_oam_search(p, m)
      [] p.mode = PixelTransfer -> step_pixel_transfer(p, m)
      [] p.mode = HBlank -> step_h_blank(p, m)
      [] p.mode = VBlank -> step_v_blank(p, m)

----------------------------------------------------------------------------
(* CPU (lr35902.rs).  A CPU value is a record                              *)
(*   [registers, ime, halted, overflow_checks];                            *)
(* overflow_checks tells whether the build panics on u16 overflow (as a    *)
(* debug build does) or wraps (as a release build does).  A panic of the   *)
(* core is recorded in the panicked field of the MMU value.                *)

ZFLAGBIT == 7
NFLAGBIT == 6
HFLAGBIT == 5
CFLAGBIT == 4

TIMERBIT == 4
SERIALBIT == 8
JOYPADBIT == 16

Registers_default == [af |-> 0, bc |-> 0, de |-> 0, hl |-> 0, sp |-> 0, pc |-> 0]

LR35902_new ==
    [registers |-> Registers_default, ime |-> FALSE, halted |-> FALSE,
     overflow_checks |-> TRUE, tracer |-> FALSE]

get_zero_flag(c) == Bit(Lo(c.registers.af), ZFLAGBIT) # 0
get_carry_flag(c) == Bit(Lo(c.registers.af), CFLAGBIT) # 0

\* u16 arithmetic
Overflows(x) == x < 0 \/ x > 65535
Wrap16(x) == (x + 65536) % 65536

\* outcome of a handler: the CPU, the MMU and the ticks it returns
Ran(c, m, ticks) == [cpu |-> c, mmu |-> m, ticks |-> ticks]
Panicked(c, m) == [cpu |-> c, mmu |-> [m EXCEPT !.panicked = TRUE], ticks |-> 0]

\* push of a 16-bit value (push reads it from a register pair)
push(c, m, value) ==
    LET address == c.registers.sp
    IN  IF Overflows(address - 2) /\ c.overflow_checks THEN Panicked(c, m)
        ELSE Ran([c EXCEPT !.registers.sp = Wrap16(address - 2)],
                 write_16(m, Wrap16(address - 2), value, c.overflow_checks),
                 16)

\* pop, but with the two bytes read from the stack exchanged
pop_swapped(c, m, destination) ==
    LET address == c.registers.sp
        high == Wrap16(address + 1)
    IN  IF \/ Overflows(address + 2) /\ c.overflow_checks
           \/ read_panics(m, address) \/ read_panics(m, high)
        THEN Panicked(c, m)
        ELSE Ran([c EXCEPT !.registers[destination] =
                               Word(read_8(m, high), read_8(m, address)),
                           !.registers.sp = Wrap16(address + 2)],
                 m, 12)

\* pop into a register pair: read_16 at SP, the pair set, SP raised by 2
pop(c, m, destination) ==
    LET address == c.registers.sp
        high == Wrap16(address + 1)
    IN  IF \/ Overflows(address + 2) /\ c.overflow_checks
           \/ read_panics(m, address) \/ read_panics(m, high)
        THEN Panicked(c, m)
        ELSE Ran([c EXCEPT !.registers[destination] =
                               Word(read_8(m, address), read_8(m, high)),
                           !.registers.sp = Wrap16(address + 2)],
                 m, 12)

\* the register pair of the arms C1/C5, D1/D5, E1/E5, F1/F5
StackPair(opcode) == <<"bc", "de", "hl", "af">>[(opcode \div 16) - 11]

call_vec(c, m, address) ==
    LET r == push(c, m, c.registers.pc)
    IN  Ran([r.cpu EXCEPT !.registers.pc = address], r.mmu, 16)

\* the tests of check_for_interrupt, in the order of the code
InterruptBits == <<VBLANKBIT, LCDBIT, TIMERBIT, SERIALBIT, JOYPADBIT>>
InterruptVectors == <<\h40, \h48, \h50, \h58, \h60>>

\* FirstInterrupt, but with the tests in the opposite order
FirstInterrupt_reversed(interrupt_enable, interrupt_flag) ==
    LET hits == {k \in 1..5 : /\ Has(interrupt_enable, InterruptBits[k])
                              /\ Has(interrupt_flag, InterruptBits[k])}
    IN  IF hits = {} THEN 0 ELSE CHOOSE k \in hits : \A j \in hits : k >= j

\* the first test of check_for_interrupt that succeeds, 0 if none does
FirstInterrupt(interrupt_enable, interrupt_flag) ==
    LET hits == {k \in 1..5 : /\ Has(interrupt_enable, InterruptBits[k])
                              /\ Has(interrupt_flag, InterruptBits[k])}
    IN  IF hits = {} THEN 0 ELSE CHOOSE k \in hits : \A j \in hits : k <= j

check_for_interrupt(c, m) ==
    LET interrupt_flag == read_8(m, \hFF0F)
        interrupt_enable == read_8(m, \hFFFF)
        k == FirstInterrupt(interrupt_enable, interrupt_flag)
        r == call_vec(c, m, InterruptVectors[k])
    IN  IF k = 0 THEN [cpu |-> c, mmu |-> m, some |-> FALSE]
        ELSE [cpu |-> r.cpu,
              mmu |-> write_8(r.mmu, \hFF0F, AndNot8(interrupt_flag, InterruptBits[k])),
              some |-> TRUE]

\* pc_next_8: the byte at PC, PC advanced by one
pc_next_8(c, m) ==
    LET pc == c.registers.pc
    IN  IF read_panics(m, pc) \/ (Overflows(pc + 1) /\ c.overflow_checks)
        THEN [cpu |-> c, mmu |-> [m EXCEPT !.panicked = TRUE], value |-> 0]
        ELSE [cpu |-> [c EXCEPT !.registers.pc = Wrap16(pc + 1)], mmu |-> m,
              value |-> read_8(m, pc)]

\* the handler of each arm of the match of next_instruction, opcodes 00..FF
\* ("nop" is the arm that returns 4, "unreachable" an arm of unreachable!())
PrimaryHandlers ==
    << "nop", "load_16_immediate", "load_8_at", "inc_16",
       "inc_8", "dec_8", "load_8_immediate", "rotate_left_accumulator",
       "load_16_at_immediate", "add_16", "load_8_from", "dec_16",
       "inc_8", "dec_8", "load_8_immediate", "rotate_right_accumulator",
       "stop", "load_16_immediate", "load_8_at", "inc_16",
       "inc_8", "dec_8", "load_8_immediate", "rotate_left_accumulator",
       "jump_if_immediate_8", "add_16", "load_8_from", "dec_16",
       "inc_8", "dec_8", "load_8_immediate", "rotate_right_accumulator",
       "jump_if_immediate_8", "load_16_immediate", "load_8_at_increment", "inc_16",
       "inc_8", "dec_8", "load_8_immediate", "decimal_adjust",
       "jump_if_immediate_8", "add_16", "load_8_from_increment", "dec_16",
       "inc_8", "dec_8", "load_8_immediate", "complement",
       "jump_if_immediate_8", "load_16_immediate", "load_8_at_decrement", "inc_16",
       "inc_8_at", "dec_8_at", "load_8_immediate_at", "set_carry_flag",
       "jump_if_immediate_8", "add_16", "load_8_from_decrement", "dec_16",
       "inc_8", "dec_8", "load_8_immediate", "complement_carry_flag",
       "load_8", "load_8", "load_8", "load_8",
       "load_8", "load_8", "load_8_from", "load_8",
       "load_8", "load_8", "load_8", "load_8",
       "load_8", "load_8", "load_8_from", "load_8",
       "load_8", "load_8", "load_8", "load_8",
       "load_8", "load_8", "load_8_from", "load_8",
       "load_8", "load_8", "load_8", "load_8",
       "load_8", "load_8", "load_8_from", "load_8",
       "load_8", "load_8", "load_8", "load_8",
       "load_8", "load_8", "load_8_from", "load_8",
       "load_8", "load_8", "load_8", "load_8",
       "load_8", "load_8", "load_8_from", "load_8",
       "load_8_at", "load_8_at", "load_8_at", "load_8_at",
       "load_8_at", "load_8_at", "halt", "load_8_at",
       "load_8", "load_8", "load_8", "load_8",
       "load_8", "load_8", "load_8_from", "load_8",
       "add_8", "add_8", "add_8", "add_8",
       "add_8", "add_8", "add_8_from", "add_8",
       "add_carry_8", "add_carry_8", "add_carry_8", "add_carry_8",
       "add_carry_8", "add_carry_8", "add_carry_8_from", "add_carry_8",
       "sub_8", "sub_8", "sub_8", "sub_8",
       "sub_8", "sub_8", "sub_8_from", "sub_8",
       "sub_carry_8", "sub_carry_8", "sub_carry_8", "sub_carry_8",
       "sub_carry_8", "sub_carry_8", "sub_carry_8_from", "sub_carry_8",
       "and_8", "and_8", "and_8", "and_8",
       "and_8", "and_8", "and_8_from", "and_8",
       "xor_8", "xor_8", "xor_8", "xor_8",
       "xor_8", "xor_8", "xor_8_from", "xor_8",
       "or_8", "or_8", "or_8", "or_8",
       "or_8", "or_8", "or_8_from", "or_8",
       "cp_8", "cp_8", "cp_8", "cp_8",
       "cp_8", "cp_8", "cp_8_from", "cp_8",
       "ret_if", "pop", "jump_if_immediate_16", "jump_if_immediate_16",
       "call", "push", "add_8_immediate", "call_vec",
       "ret_if", "ret", "jump_if_immediate_16", "prefix_cb",
       "call", "call", "add_carry_8_immediate", "call_vec",
       "ret_if", "pop", "jump_if_immediate_16", "unreachable",
       "call", "push", "sub_8_immediate", "call_vec",
       "ret_if", "ret_interrupt", "jump_if_immediate_16", "unreachable",
       "call", "unreachable", "sub_carry_8_immediate", "call_vec",
       "load_8_at_io_immediate", "pop", "load_8_at_io", "unreachable",
       "unreachable", "push", "and_8_immediate", "call_vec",
       "add_16_immediate", "jump", "load_8_at_immediate", "unreachable",
       "unreachable", "unreachable", "xor_8_immediate", "call_vec",
       "load_8_from_io_immediate", "pop", "load_8_from_io", "disable_interrupts",
       "unreachable", "push", "or_8_immediate", "call_vec",
       "load_16_add_immediate", "load_16", "load_8_from_immediate", "enable_interrupts",
       "unreachable", "unreachable", "cp_8_immediate", "call_vec" >>

\* the handler of each arm of the match of prefix_cb, opcodes 00..FF
PrefixHandlers ==
    << "rotate_left", "rotate_left", "rotate_left", "rotate_left",
       "rotate_left", "rotate_left", "rotate_left_at", "rotate_left",
       "rotate_right", "rotate_right", "rotate_right", "rotate_right",
       "rotate_right", "rotate_right", "rotate_right_at", "rotate_right",
       "rotate_left_carry", "rotate_left_carry", "rotate_left_carry", "rotate_left_carry",
       "rotate_left_carry", "rotate_left_carry", "rotate_left_carry_at", "rotate_left_carry",
       "rotate_right_carry", "rotate_right_carry", "rotate_right_carry", "rotate_right_carry",
       "rotate_right_carry", "rotate_right_carry", "rotate_right_carry_at", "rotate_right_carry",
       "shift_left", "shift_left", "shift_left", "shift_left",
       "shift_left", "shift_left", "shift_left_at", "shift_left",
       "shift_right", "shift_right", "shift_right", "shift_right",
       "shift_right", "shift_right", "shift_right_at", "shift_right",
       "swap", "swap", "swap", "swap",
       "swap", "swap", "swap_at", "swap",
       "shift_right_logic", "shift_right_logic", "shift_right_logic", "shift_right_logic",
       "shift_right_logic", "shift_right_logic", "shift_right_logic_at", "shift_right_logic",
       "bit", "bit", "bit", "bit",
       "bit", "bit", "bit_at", "bit",
       "bit", "bit", "bit", "bit",
       "bit", "bit", "bit_at", "bit",
       "bit", "bit", "bit", "bit",
       "bit", "bit", "bit_at", "bit",
       "bit", "bit", "bit", "bit",
       "bit", "bit", "bit_at", "bit",
       "bit", "bit", "bit", "bit",
       "bit", "bit", "bit_at", "bit",
       "bit", "bit", "bit", "bit",
       "bit", "bit", "bit_at", "bit",
       "bit", "bit", "bit", "bit",
       "bit", "bit", "bit_at", "bit",
       "bit", "bit", "bit", "bit",
       "bit", "bit", "bit_at", "bit",
       "reset_bit", "reset_bit", "reset_bit", "reset_bit",
       "reset_bit", "reset_bit", "reset_bit_at", "reset_bit",
       "reset_bit", "reset_bit", "reset_bit", "reset_bit",
       "reset_bit", "reset_bit", "reset_bit_at", "reset_bit",
       "reset_bit", "reset_bit", "reset_bit", "reset_bit",
       "reset_bit", "reset_bit", "reset_bit_at", "reset_bit",
       "reset_bit", "reset_bit", "reset_bit", "reset_bit",
       "reset_bit", "reset_bit", "reset_bit_at", "reset_bit",
       "reset_bit", "reset_bit", "reset_bit", "reset_bit",
       "reset_bit", "reset_bit", "reset_bit_at", "reset_bit",
       "reset_bit", "reset_bit", "reset_bit", "reset_bit",
       "reset_bit", "reset_bit", "reset_bit_at", "reset_bit",
       "reset_bit", "reset_bit", "reset_bit", "reset_bit",
       "reset_bit", "reset_bit", "reset_bit_at", "reset_bit",
       "reset_bit", "reset_bit", "reset_bit", "reset_bit",
       "reset_bit", "reset_bit", "reset_bit_at", "reset_bit",
       "set_bit", "set_bit", "set_bit", "set_bit",
       "set_bit", "set_bit", "set_bit_at", "set_bit",
       "set_bit", "set_bit", "set_bit", "set_bit",
       "set_bit", "set_bit", "set_bit_at", "set_bit",
       "set_bit", "set_bit", "set_bit", "set_bit",
       "set_bit", "set_bit", "set_bit_at", "set_bit",
       "set_bit", "set_bit", "set_bit", "set_bit",
       "set_bit", "set_bit", "set_bit_at", "set_bit",
       "set_bit", "set_bit", "set_bit", "set_bit",
       "set_bit", "set_bit", "set_bit_at", "set_bit",
       "set_bit", "set_bit", "set_bit", "set_bit",
       "set_bit", "set_bit", "set_bit_at", "set_bit",
       "set_bit", "set_bit", "set_bit", "set_bit",
       "set_bit", "set_bit", "set_bit_at", "set_bit",
       "set_bit", "set_bit", "set_bit", "set_bit",
       "set_bit", "set_bit", "set_bit_at", "set_bit" >>

\* the condition the arm of a conditional opcode passes to its handler
Condition(opcode, c) ==
    CASE opcode \in {\h20, \hC0, \hC2, \hC4} -> ~get_zero_flag(c)
      [] opcode \in {\h28, \hC8, \hCA, \hCC} -> get_zero_flag(c)
      [] opcode \in {\h30, \hD0, \hD2, \hD4} -> ~get_carry_flag(c)
      [] opcode \in {\h38, \hD8, \hDA, \hDC} -> get_carry_flag(c)
      [] OTHER -> TRUE

\* the ticks each handler returns; condition is the argument of the
\* conditional handlers
HandlerTicks(h, condition) ==
    CASE h = "nop" -> 4
      [] h = "load_16_immediate" -> 12
      [] h = "load_8_at" -> 8
      [] h = "inc_16" -> 8
      [] h = "inc_8" -> 4
      [] h = "dec_8" -> 4
      [] h = "load_8_immediate" -> 8
      [] h = "rotate_left_accumulator" -> 4
      [] h = "load_16_at_immediate" -> 20
      [] h = "add_16" -> 8
      [] h = "load_8_from" -> 8
      [] h = "dec_16" -> 8
      [] h = "rotate_right_accumulator" -> 4
      [] h = "stop" -> 4
      [] h = "jump_if_immediate_8" -> IF ~condition THEN 8 ELSE 12
      [] h = "load_8_at_increment" -> 8
      [] h = "decimal_adjust" -> 4
      [] h = "load_8_from_increment" -> 8
      [] h = "complement" -> 4
      [] h = "load_8_at_decrement" -> 8
      [] h = "inc_8_at" -> 12
      [] h = "dec_8_at" -> 8
      [] h = "load_8_immediate_at" -> 12
      [] h = "set_carry_flag" -> 4
      [] h = "load_8_from_decrement" -> 8
      [] h = "complement_carry_flag" -> 4
      [] h = "load_8" -> 4
      [] h = "halt" -> 4
      [] h = "add_8" -> 4
      [] h = "add_8_from" -> 8
      [] h = "add_carry_8" -> 4
      [] h = "add_carry_8_from" -> 8
      [] h = "sub_8" -> 4
      [] h = "sub_8_from" -> 8
      [] h = "sub_carry_8" -> 4
      [] h = "sub_carry_8_from" -> 8
      [] h = "and_8" -> 4
      [] h = "and_8_from" -> 8
      [] h = "xor_8" -> 4
      [] h = "xor_8_from" -> 8
      [] h = "or_8" -> 4
      [] h = "or_8_from" -> 8
      [] h = "cp_8" -> 4
      [] h = "cp_8_from" -> 8
      [] h = "ret_if" -> IF ~condition THEN 8 ELSE 20
      [] h = "pop" -> 12
      [] h = "jump_if_immediate_16" -> IF ~condition THEN 12 ELSE 16
      [] h = "call" -> IF ~condition THEN 12 ELSE 24
      [] h = "push" -> 16
      [] h = "add_8_immediate" -> 8
      [] h = "call_vec" -> 16
      [] h = "ret" -> 16
      [] h = "add_carry_8_immediate" -> 8
      [] h = "sub_8_immediate" -> 8
      [] h = "ret_interrupt" -> 16
      [] h = "sub_carry_8_immediate" -> 8
      [] h = "load_8_at_io_immediate" -> 12
      [] h = "load_8_at_io" -> 8
      [] h = "and_8_immediate" -> 8
      [] h = "add_16_immediate" -> 16
      [] h = "jump" -> 4
      [] h = "load_8_at_immediate" -> 16
      [] h = "xor_8_immediate" -> 8
      [] h = "load_8_from_io_immediate" -> 12
      [] h = "load_8_from_io" -> 8
      [] h = "disable_interrupts" -> 4
      [] h = "or_8_immediate" -> 8
      [] h = "load_16_add_immediate" -> 12
      [] h = "load_16" -> 8
      [] h = "load_8_from_immediate" -> 16
      [] h = "enable_interrupts" -> 4
      [] h = "cp_8_immediate" -> 8
      [] h = "rotate_left" -> 8
      [] h = "rotate_left_at" -> 16
      [] h = "rotate_right" -> 8
      [] h = "rotate_right_at" -> 16
      [] h = "rotate_left_carry" -> 8
      [] h = "rotate_left_carry_at" -> 16
      [] h = "rotate_right_carry" -> 8
      [] h = "rotate_right_carry_at" -> 16
      [] h = "shift_left" -> 8
      [] h = "shift_left_at" -> 16
      [] h = "shift_right" -> 8
      [] h = "shift_right_at" -> 16
      [] h = "swap" -> 8
      [] h = "swap_at" -> 16
      [] h = "shift_right_logic" -> 8
      [] h = "shift_right_logic_at" -> 16
      [] h = "bit" -> 8
      [] h = "bit_at" -> 12
      [] h = "reset_bit" -> 8
      [] h = "reset_bit_at" -> 16
      [] h = "set_bit" -> 8
      [] h = "set_bit_at" -> 16

\* the ticks next_instruction returns for an opcode (and, after CB, the opcode
\* that follows it) that has a handler
instruction_ticks(opcode, cb_opcode, c) ==
    IF PrimaryHandlers[opcode + 1] = "prefix_cb"
    THEN HandlerTicks(PrefixHandlers[cb_opcode + 1], TRUE)
    ELSE HandlerTicks(PrimaryHandlers[opcode + 1], Condition(opcode, c))

\* the opcodes without a handler
instruction_panics(opcode) == PrimaryHandlers[opcode + 1] = "unreachable"

\* the argument of call_vec in the arms C7, CF, .., FF
RstVector(opcode) == opcode - \hC7

\* Registers::get_8 and set_8: the halves of af, bc, de, hl
get_8(c, register) ==
    CASE register = "a" -> Hi(c.registers.af)
      [] register = "f" -> Lo(c.registers.af)
      [] register = "b" -> Hi(c.registers.bc)
      [] register = "c" -> Lo(c.registers.bc)
      [] register = "d" -> Hi(c.registers.de)
      [] register = "e" -> Lo(c.registers.de)
      [] register = "h" -> Hi(c.registers.hl)
      [] register = "l" -> Lo(c.registers.hl)

set_8(c, register, value) ==
    CASE register = "a" -> [c EXCEPT !.registers.af = Word(Lo(@), value)]
      [] register = "f" -> [c EXCEPT !.registers.af = Word(value, Hi(@))]
      [] register = "b" -> [c EXCEPT !.registers.bc = Word(Lo(@), value)]
      [] register = "c" -> [c EXCEPT !.registers.bc = Word(value, Hi(@))]
      [] register = "d" -> [c EXCEPT !.registers.de = Word(Lo(@), value)]
      [] register = "e" -> [c EXCEPT !.registers.de = Word(value, Hi(@))]
      [] register = "h" -> [c EXCEPT !.registers.hl = Word(Lo(@), value)]
      [] register = "l" -> [c EXCEPT !.registers.hl = Word(value, Hi(@))]

\* set_zero_flag, set_n_flag, set_h_flag, set_carry_flag: one bit of F
set_flag(c, flag, value) ==
    set_8(c, "f", IF value THEN Or8(get_8(c, "f"), 2 ^ flag)
                  ELSE AndNot8(get_8(c, "f"), 2 ^ flag))

set_flags(c, z, n, h, cf) ==
    set_flag(set_flag(set_flag(set_flag(c, ZFLAGBIT, z), NFLAGBIT, n),
                      HFLAGBIT, h),
             CFLAGBIT, cf)

\* _add_8_inner and _sub_8_inner: the CPU with the flags set, and the result
add_8_inner(c, destination, source, carry) ==
    LET h_flag == (destination % 16) + (source % 16) + carry > 15
        sum == (destination + source) % 256
        c_flag == destination + source > 255 \/ sum + carry > 255
        res == (sum + carry) % 256
    IN  [cpu |-> set_flags(c, res = 0, FALSE, h_flag, c_flag), res |-> res]

sub_8_inner(c, destination, source, carry) ==
    LET h_res == ((destination % 16) - (source % 16) + 256) % 256
        h_flag == (destination % 16) < (source % 16) \/ h_res < carry
        diff == (destination - source + 256) % 256
        c_flag == destination < source \/ diff < carry
        res == (diff - carry + 256) % 256
    IN  [cpu |-> set_flags(c, res = 0, TRUE, h_flag, c_flag), res |-> res]

\* the handlers of SUB, SBC and CP on the value of their operand
sub_8(c, value) ==
    LET r == sub_8_inner(c, get_8(c, "a"), value, 0)
    IN  set_8(r.cpu, "a", r.res)

sub_carry_8(c, value) ==
    LET r == add_8_inner(c, get_8(c, "a"), value,
                         IF get_carry_flag(c) THEN 1 ELSE 0)
    IN  set_8(r.cpu, "a", r.res)

cp_8(c, value) == sub_8_inner(c, get_8(c, "a"), value, 0).cpu

\* inc_8 and dec_8 on the value of their operand: the CPU with the flags
\* set, and the result to store
inc_8(c, value) ==
    LET res == (value + 1) % 256
    IN  [cpu |-> set_flag(set_flag(set_flag(c, ZFLAGBIT, res = 0),
                                   NFLAGBIT, FALSE),
                          HFLAGBIT, (value % 16) + 1 > 15),
         res |-> res]

dec_8(c, value) ==
    LET res == (value + 255) % 256
    IN  [cpu |-> set_flag(set_flag(set_flag(c, ZFLAGBIT, res = 0),
                                   NFLAGBIT, FALSE),
                          HFLAGBIT, value % 16 = 0),
         res |-> res]

\* bit and bit_at on the value of their operand
bit(c, n, value) ==
    set_flag(set_flag(set_flag(c, ZFLAGBIT, Bit(value, n) # 0), NFLAGBIT, FALSE),
             HFLAGBIT, TRUE)

\* the operand of the arms 04..3D (bits 3-5 of the opcode) and of the arms
\* 90..BF and CB 40..7F (bits 0-2); "hl" is the byte at the address in HL
Operands == <<"b", "c", "d", "e", "h", "l", "hl", "a">>

SubForms == {"sub_8", "sub_8_from", "sub_8_immediate"}
SbcForms == {"sub_carry_8", "sub_carry_8_from", "sub_carry_8_immediate"}
CpForms == {"cp_8", "cp_8_from", "cp_8_immediate"}
IncDecForms == {"inc_8", "inc_8_at", "dec_8", "dec_8_at"}
AluHandlers == SubForms \cup SbcForms \cup CpForms \cup IncDecForms

\* the value a handler reads: the next byte of the program, the byte at the
\* address in HL, or a register
operand_8(c, m, register, immediate) ==
    IF immediate THEN pc_next_8(c, m)
    ELSE IF register = "hl"
    THEN IF read_panics(m, c.registers.hl)
         THEN [cpu |-> c, mmu |-> [m EXCEPT !.panicked = TRUE], value |-> 0]
         ELSE [cpu |-> c, mmu |-> m, value |-> read_8(m, c.registers.hl)]
    ELSE [cpu |-> c, mmu |-> m, value |-> get_8(c, register)]

\* inc_8 / dec_8 store the result in the register, inc_8_at / dec_8_at at
\* the address in HL
stored_8(r, m, register, ticks) ==
    IF register = "hl" THEN Ran(r.cpu, write_8(m, r.cpu.registers.hl, r.res), ticks)
    ELSE Ran(set_8(r.cpu, register, r.res), m, ticks)

\* the arms of next_instruction that call the handlers of AluHandlers
alu_instruction(c, m, h, opcode, ticks) ==
    LET register == IF h \in IncDecForms THEN Operands[((opcode \div 8) % 8) + 1]
                    ELSE Operands[(opcode % 8) + 1]
        o == operand_8(c, m, register, opcode >= \hC0)
    IN  IF o.mmu.panicked THEN Panicked(o.cpu, m)
        ELSE CASE h \in SubForms -> Ran(sub_8(o.cpu, o.value), m, ticks)
               [] h \in SbcForms -> Ran(sub_carry_8(o.cpu, o.value), m, ticks)
               [] h \in CpForms -> Ran(cp_8(o.cpu, o.value), m, ticks)
               [] h \in {"inc_8", "inc_8_at"} ->
                      stored_8(inc_8(o.cpu, o.value), m, register, ticks)
               [] h \in {"dec_8", "dec_8_at"} ->
                      stored_8(dec_8(o.cpu, o.value), m, register, ticks)

\* the handlers of prefix_cb whose effect is modelled
ModelledPrefixHandlers == {"bit", "bit_at"}

\* prefix_cb: the arms 40..7F
prefix_cb(c, m) ==
    LET f == pc_next_8(c, m)
        o == operand_8(f.cpu, m, Operands[(f.value % 8) + 1], FALSE)
    IN  IF f.mmu.panicked \/ o.mmu.panicked THEN Panicked(f.cpu, m)
        ELSE Ran(bit(f.cpu, (f.value \div 8) % 8, o.value), m,
                 instruction_ticks(\hCB, f.value, f.cpu))

\* the handlers whose effect on the CPU is modelled
ModelledHandlers ==
    {"nop", "halt", "disable_interrupts", "enable_interrupts", "call_vec",
     "push", "pop", "unreachable"} \cup AluHandlers

halt(c) == [c EXCEPT !.halted = TRUE]
disable_interrupts(c) == [c EXCEPT !.ime = FALSE]
enable_interrupts(c) == [c EXCEPT !.ime = TRUE]

next_instruction(c, m) ==
    LET f == pc_next_8(c, m)
        opcode == f.value
        h == PrimaryHandlers[opcode + 1]
        ticks == instruction_ticks(opcode, 0, f.cpu)
    IN  IF f.mmu.panicked \/ instruction_panics(opcode) THEN Panicked(f.cpu, m)
        ELSE CASE h = "nop" -> Ran(f.cpu, m, ticks)
               [] h = "halt" -> Ran(halt(f.cpu), m, ticks)
               [] h = "disable_interrupts" -> Ran(disable_interrupts(f.cpu), m, ticks)
               [] h = "enable_interrupts" -> Ran(enable_interrupts(f.cpu), m, ticks)
               [] h = "call_vec" -> call_vec(f.cpu, m, RstVector(opcode))
               [] h = "push" -> push(f.cpu, m, f.cpu.registers[StackPair(opcode)])
               [] h = "pop" -> pop(f.cpu, m, StackPair(opcode))
               [] h \in AluHandlers -> alu_instruction(f.cpu, m, h, opcode, ticks)
               [] h = "prefix_cb" -> prefix_cb(f.cpu, m)

\* step; fetched tells whether the step read an opcode
cpu_step(c, m) ==
    LET i == check_for_interrupt(c, m)
        r == next_instruction(c, m)
    IN  IF c.ime /\ i.some
        THEN [cpu |-> [i.cpu EXCEPT !.ime = FALSE, !.halted = FALSE],
              mmu |-> i.mmu, ticks |-> 20, fetched |-> FALSE]
        ELSE IF c.halted
        THEN [cpu |-> c, mmu |-> m, ticks |-> 0, fetched |-> FALSE]
        ELSE [cpu |-> r.cpu, mmu |-> r.mmu, ticks |-> r.ticks, fetched |-> TRUE]

\* the opcode a step would read has a modelled handler
CanStep(c, m) ==
    \/ c.ime /\ check_for_interrupt(c, m).some
    \/ c.halted
    \/ read_panics(m, c.registers.pc)
    \/ PrimaryHandlers[read_8(m, c.registers.pc) + 1] \in ModelledHandlers
    \/ /\ PrimaryHandlers[read_8(m, c.registers.pc) + 1] = "prefix_cb"
       /\ ~read_panics(m, c.registers.pc + 1)
       /\ PrefixHandlers[read_8(m, c.registers.pc + 1) + 1]
              \in ModelledPrefixHandlers

----------------------------------------------------------------------------
(* Construction of a cartridge from a ROM file (cartridge.rs).  A file is  *)
(* its length and the three header bytes the code reads.                   *)

ImageNone == [len |-> 0, mbc |-> 0, rom_size |-> 0, ram_size |-> 0,
              overflow_checks |-> TRUE, outcome |-> "none"]

\* CartridgeROM::new reads header byte 0148 and always succeeds
CartridgeROM_new_outcome(img) == "Ok"

\* CartridgeMBC1::new: 1 << (rom_size + 1) on a u32 overflows for header
\* bytes from 0x1F on (a build with overflow checks panics), then the match
\* on header byte 0149
CartridgeMBC1_new_outcome(img) ==
    IF img.overflow_checks /\ img.rom_size + 1 >= 32 THEN "panic"
    ELSE IF img.ram_size \in {0, 2, 3, 4, 5} THEN "Ok"
    ELSE "InvalidHeader"

from_file(img) ==
    IF img.len < \h8000 THEN "InvalidRomSize"
    ELSE IF img.mbc = 0 THEN CartridgeROM_new_outcome(img)
    ELSE IF img.mbc \in 1..3 THEN CartridgeMBC1_new_outcome(img)
    ELSE "UnimplementedMBC"

----------------------------------------------------------------------------
(* Timer (timer.rs).  tick_counter is a usize that wraps at a multiple of  *)
(* every period; the model counts it without the wrap.                     *)

\* ClockType::from(u8) as usize: the period of the selected clock
\* the periods one code further (defined for comparison)
ClockType_shifted(value) ==
    CASE value = 0 -> 4 * 4
      [] value = 1 -> 16 * 4
      [] value = 2 -> 64 * 4
      [] value = 3 -> 256 * 4

ClockType(value) ==
    CASE value = 0 -> 256 * 4
      [] value = 1 -> 4 * 4
      [] value = 2 -> 16 * 4
      [] value = 3 -> 64 * 4

\* u8::from(ClockType)
ClockCode(period) == CHOOSE value \in 0..3 : ClockType(value) = period

Timer_new ==
    [div_register |-> 0, counter |-> 0, modulo |-> 0, enable |-> FALSE,
     selected_clock |-> ClockType(0), tick_counter |-> 0]

\* Timer::tick: the timer after one tick and the value it returns
Timer_tick(t) ==
    LET n == t.tick_counter + 1
        div == IF n % 256 = 0 THEN (t.div_register + 1) % 256 ELSE t.div_register
        counts == t.enable /\ n % t.selected_clock = 0
        overflow == counts /\ t.counter = 255
    IN  [timer |-> [t EXCEPT !.tick_counter = n,
                             !.div_register = div,
                             !.counter = IF overflow THEN t.modulo
                                         ELSE IF counts THEN t.counter + 1
                                         ELSE t.counter],
         raise_interrupt |-> overflow]

write_timer_control(t, value) ==
    [t EXCEPT !.enable = Bit(value, 2) # 0,
              !.selected_clock = ClockType(value % 4)]

Timer_write_8(t, address, value) ==
    CASE address = \hFF04 -> [t EXCEPT !.div_register = 0]
      [] address = \hFF05 -> [t EXCEPT !.counter = value]
      [] address = \hFF06 -> [t EXCEPT !.modulo = value]
      [] address = \hFF07 -> write_timer_control(t, value)

read_timer_control(t) == (IF t.enable THEN 4 ELSE 0) + ClockCode(t.selected_clock)

Timer_read_8(t, address) ==
    CASE address = \hFF04 -> t.div_register
      [] address = \hFF05 -> t.counter
      [] address = \hFF06 -> t.modulo
      [] address = \hFF07 -> read_timer_control(t)

----------------------------------------------------------------------------
(* Joypad (joypad.rs).                                                     *)

DmgButtons == {"Up", "Down", "Left", "Right", "A", "B", "Start", "Select"}

\* the half and the bit of each button
ButtonHalf(button) ==
    IF button \in {"Up", "Down", "Left", "Right"} THEN "d_pad" ELSE "buttons"

ButtonBit(button) ==
    CASE button \in {"Right", "A"} -> 0
      [] button \in {"Left", "B"} -> 1
      [] button \in {"Up", "Select"} -> 2
      [] button \in {"Down", "Start"} -> 3

Joypad_new == [buttons |-> \h0F, d_pad |-> \h0F, select_mode |-> "Other"]

button_pressed(j, button) ==
    LET half == ButtonHalf(button)
    IN  [j EXCEPT ![half] = AndNot8(j[half], 2 ^ ButtonBit(button))]

button_released(j, button) ==
    LET half == ButtonHalf(button)
    IN  [j EXCEPT ![half] = Or8(j[half], 2 ^ ButtonBit(button))]

\* Joypad::write reaches unreachable!() when bits 4 and 5 are both zero
Joypad_write_panics(value) == (value \div 16) % 4 = 0

Joypad_write(j, value) ==
    CASE (value \div 16) % 4 = 1 -> [j EXCEPT !.select_mode = "DirectionalPad"]
      [] (value \div 16) % 4 = 2 -> [j EXCEPT !.select_mode = "Buttons"]
      [] (value \div 16) % 4 = 3 -> [j EXCEPT !.select_mode = "Other"]

Joypad_read(j) ==
    CASE j.select_mode = "Buttons" -> Or8(\h20, j.buttons)
      [] j.select_mode = "DirectionalPad" -> Or8(\h10, j.d_pad)
      [] j.select_mode = "Other" -> \h3F

----------------------------------------------------------------------------
(* The coordinator (dmg.rs).  at is the position of the core thread in     *)
(* start_game: "poll" in handle_gui_messages, "frame" in the loop of the   *)
(* normal flow after i iterations, "stepping" in the loop of the step      *)
(* flow, "returned" after start_game returned Ok.  rx holds the messages   *)
(* the host sent and the core has not received; registers_sent and         *)
(* snapshots count the RegistersStatus and the MemoryState messages sent   *)
(* to the host.                                                            *)

DotMatrixGame_new ==
    [rx |-> <<>>, registers_sent |-> 0, snapshots |-> 0,
     step_mode |-> FALSE, next_step |-> FALSE,
     step_count |-> 0, cpu_ticks |-> 1, ppu_ticks |-> 1,
     at |-> "poll", i |-> 0, trace_written |-> FALSE]

\* GuiMessage (thread.rs): the kind and the argument of the kind
Message(kind, count, mode, button) ==
    [kind |-> kind, count |-> count, mode |-> mode, button |-> button]
Close == Message("Close", 0, FALSE, "A")
RequestState == Message("RequestState", 0, FALSE, "A")
NextInstruction(count) == Message("NextInstruction", count, FALSE, "A")
StepMode(mode) == Message("StepMode", 0, mode, "A")
PressedMessage(button) == Message("ButtonPressed", 0, FALSE, button)
ReleasedMessage(button) == Message("ButtonReleased", 0, FALSE, button)

\* what start_game works on: the coordinator and the parts it owns
Core ==
    [dmg |-> dmg, mmu |-> mmu, cpu |-> cpu, ppu |-> ppu, timer |-> timer,
     joypad |-> joypad]

\* get_memory_dump copies the ROM the cartridge dumps over the first 0x8000
\* bytes: dump_rom of an MBC1 cartridge is unimplemented!(), and
\* copy_from_slice panics when the lengths differ
get_memory_dump_panics(m) ==
    m.cartridge.kind = "MBC1" \/ m.cartridge.rom_len # \h8000

\* the byte at address a of the array get_memory_dump returns: the memory
\* array, the dumped ROM over 0000-7FFF, the boot ROM over 0000-00FF
get_memory_dump(m, a) ==
    IF boot_rom_enabled(m) /\ a <= \hFF THEN BootRomByte(a)
    ELSE IF a <= \h7FFF THEN RomByte(a)
    ELSE MemCell(m, a)

\* the RegistersStatus message is sent before get_memory_dump is called
send_state_messages(k) ==
    IF get_memory_dump_panics(k.mmu)
    THEN [k EXCEPT !.dmg.registers_sent = @ + 1, !.mmu.panicked = TRUE]
    ELSE [k EXCEPT !.dmg.registers_sent = @ + 1, !.dmg.snapshots = @ + 1]

\* the loop of handle_gui_messages ignores Close (defined for comparison)
handle_gui_message_deaf(k, message) ==
    CASE message.kind = "NextInstruction" ->
             [k EXCEPT !.dmg.next_step = TRUE, !.dmg.step_count = message.count]
      [] message.kind = "RequestState" -> send_state_messages(k)
      [] message.kind = "StepMode" -> [k EXCEPT !.dmg.step_mode = message.mode]
      [] message.kind = "ButtonPressed" ->
             [k EXCEPT !.joypad = button_pressed(@, message.button),
                       !.mmu = write_8(@, \hFF0F, Or8(read_8(@, \hFF0F), JOYPADBIT))]
      [] message.kind = "ButtonReleased" ->
             [k EXCEPT !.joypad = button_released(@, message.button)]
      [] OTHER -> k

\* one iteration of the loop of handle_gui_messages, for the message try_recv
\* returned.  Close returns false: start_game leaves its loop, writes the
\* trace when the CPU has a tracer and returns Ok
handle_gui_message(k, message) ==
    CASE message.kind = "Close" ->
             [k EXCEPT !.dmg.at = "returned", !.dmg.trace_written = k.cpu.tracer]
      [] message.kind = "NextInstruction" ->
             [k EXCEPT !.dmg.next_step = TRUE, !.dmg.step_count = message.count]
      [] message.kind = "RequestState" -> send_state_messages(k)
      [] message.kind = "StepMode" -> [k EXCEPT !.dmg.step_mode = message.mode]
      [] message.kind = "ButtonPressed" ->
             [k EXCEPT !.joypad = button_pressed(@, message.button),
                       !.mmu = write_8(@, \hFF0F, Or8(read_8(@, \hFF0F), JOYPADBIT))]
      [] message.kind = "ButtonReleased" ->
             [k EXCEPT !.joypad = button_released(@, message.button)]

\* try_recv returned Ok(message)
received(k) ==
    handle_gui_message([k EXCEPT !.dmg.rx = Tail(@)], Head(k.dmg.rx))

\* try_recv found the channel empty: handle_gui_messages returns true and
\* start_game goes on to the flow of the mode
polled(k) ==
    IF ~k.dmg.step_mode THEN [k EXCEPT !.dmg.at = "frame", !.dmg.i = 0]
    ELSE IF ~k.dmg.next_step THEN k
    ELSE IF k.dmg.step_count > 0 THEN [k EXCEPT !.dmg.at = "stepping"]
    ELSE [k EXCEPT !.dmg.next_step = FALSE]

\* TickCoordinator (clock.rs): tick and tick_all on the ticks to wait
\* tick fires one iteration late (defined for comparison)
tick_due_late(ticks_to_wait) == ticks_to_wait - 1 < 0

tick_due(ticks_to_wait) == ticks_to_wait - 1 <= 0
tick_all(ticks_to_wait) == IF ticks_to_wait <= 0 THEN 0 ELSE ticks_to_wait

timer_ticked(k) == [k EXCEPT !.timer = Timer_tick(@).timer]

cpu_stepped(k, r) ==
    [k EXCEPT !.cpu = r.cpu, !.mmu = r.mmu, !.dmg.cpu_ticks = r.ticks]

ppu_stepped(k, r) ==
    [k EXCEPT !.ppu = r.ppu, !.mmu = r.mmu, !.dmg.ppu_ticks = r.ticks]

\* if cpu_ticks.tick() { ticks = cpu.step(); cpu_ticks.wait_for(ticks) }
cycle_cpu(k) ==
    IF tick_due(k.dmg.cpu_ticks)
    THEN cpu_stepped(k, cpu_step(k.cpu, k.mmu))
    ELSE [k EXCEPT !.dmg.cpu_ticks = @ - 1]

\* if ppu_ticks.tick() { ticks = ppu.step(); ppu_ticks.wait_for(ticks) }
cycle_ppu(k) ==
    IF k.mmu.panicked THEN k
    ELSE IF tick_due(k.dmg.ppu_ticks)
    THEN ppu_stepped(k, ppu_step(k.ppu, k.mmu))
    ELSE [k EXCEPT !.dmg.ppu_ticks = @ - 1]

\* the end of an iteration of for _ in 0..quota
cycle_end(k, quota) ==
    IF k.mmu.panicked THEN k
    ELSE IF k.dmg.i + 1 >= quota
    THEN [k EXCEPT !.dmg.i = 0, !.dmg.at = "poll"]
    ELSE [k EXCEPT !.dmg.i = @ + 1]

\* an iteration that also receives a message (defined for comparison)
cycle_receiving(k, quota) ==
    cycle_end(cycle_ppu(cycle_cpu(timer_ticked(
        IF k.dmg.rx = <<>> THEN k ELSE received(k)))), quota)

\* one iteration of the loop of the normal flow
cycle(k, quota) == cycle_end(cycle_ppu(cycle_cpu(timer_ticked(k))), quota)

\* if ppu_ticks.ticks(ct) { ticks = ppu.step(); ppu_ticks.wait_for(ticks) }
step_ppu(k, ct) ==
    IF k.mmu.panicked THEN k
    ELSE IF k.dmg.ppu_ticks - ct <= 0
    THEN ppu_stepped(k, ppu_step(k.ppu, k.mmu))
    ELSE [k EXCEPT !.dmg.ppu_ticks = @ - ct]

\* step_count -= 1, and next_step = false when the loop ends
step_end(k) ==
    IF k.mmu.panicked THEN k
    ELSE IF k.dmg.step_count - 1 > 0
    THEN [k EXCEPT !.dmg.step_count = @ - 1]
    ELSE [k EXCEPT !.dmg.step_count = 0, !.dmg.next_step = FALSE,
                   !.dmg.at = "poll"]

\* one iteration of the loop of the step flow
step_once(k) ==
    step_end(step_ppu(cpu_stepped(timer_ticked(k), cpu_step(k.cpu, k.mmu)),
                      tick_all(k.dmg.cpu_ticks)))

----------------------------------------------------------------------------
(* Initial values shared by the specifications.                            *)

HistInit ==
    [ops |-> 0, op |-> "none", addr |-> 0, val |-> 0,
     pre |-> MemoryMapUnit_new(CartridgeROM_new), ff50_nonzero |-> FALSE,
     ram_enable |-> FALSE]

\* obs records what the operations return and when they ran: the T-cycles of
\* the last and of the next PPU step, the CPU before the last step, the ticks
\* the step returned and whether it fetched, the opcodes whose cost is taken,
\* the CPU before the step before the last and whether that step fetched,
\* the tick count at the last write of FF04 (-1 before the first), the number
\* of writes to the timer and what the last Timer::tick returned, bits 4-5
\* of the last byte written to the joypad (-1 before the first), the number
\* of messages the host sent and whether Close is one of them, the frames
\* and the step-flow runs the core started, the calls of LR35902::step in the
\* step flow, the sum of the counts of the NextInstruction messages received
\* and whether one was received outside step mode, the snapshots sent before
\* the last step of the core, the RequestState messages received, the pace
\* of the normal flow
ObsInit ==
    [ppu_at |-> 0, ppu_due |-> 0, cpu_pre |-> LR35902_new, ticks |-> 0,
     fetched |-> FALSE, opcode |-> 0, cb_opcode |-> 0,
     prev |-> [cpu |-> LR35902_new, fetched |-> FALSE],
     div_reset_at |-> -1, timer_writes |-> 0, raise_interrupt |-> FALSE,
     counted_at |-> 0, timer_written |-> 0,
     select_written |-> -1,
     sent |-> 0, close_sent |-> FALSE, frames |-> 0, step_calls |-> 0,
     step_requested |-> 0, step_outside |-> FALSE, snapshots_pre |-> 0,
     state_requests |-> 0,
     pace |-> [clock |-> 0, cpu_at |-> 0, cpu_cost |-> 0,
               ppu_at |-> 0, ppu_cost |-> 0]]

\* the parts a specification does not exercise stay as constructed
RestInit ==
    /\ image = ImageNone
    /\ timer = Timer_new
    /\ joypad = Joypad_new
    /\ dmg = DotMatrixGame_new

----------------------------------------------------------------------------
(* Specification SpecMMU: a program writes bytes through the MMU.          *)

MaxOps == 2

Cartridges ==
    {CartridgeROM_new, CartridgeMBC1_new(\h10000, 0), CartridgeMBC1_new(\h10000, 2)}

WriteAddrs ==
    {\h0000, \h2000, \h3FFF, \h4000, \h6000, \hA000, \hBFFF,
     \h8000, \hC000, \hC100, \hC1A0, \hE000, \hFE00, \hFEA0,
     \hFF00, \hFF04, \hFF05, \hFF07, \hFF0F, \hFF41, \hFF46, \hFF50,
     \hFF80, \hFFFF}

WriteVals == {\h00, \h01, \h02, \h0A, \hC1}

InitMMU ==
    /\ mmu \in {MemoryMapUnit_new(c) : c \in Cartridges}
    /\ hist = HistInit
    /\ ppu = PixelProcessingUnit_new
    /\ cpu = LR35902_new
    /\ obs = ObsInit
    /\ RestInit

MmuWrite8 ==
    /\ ~mmu.panicked
    /\ hist.ops < MaxOps
    /\ \E a \in WriteAddrs, v \in WriteVals :
          /\ mmu' = write_8(mmu, a, v)
          /\ hist' = [ops |-> hist.ops + 1, op |-> "write_8", addr |-> a,
                      val |-> v, pre |-> mmu,
                      ff50_nonzero |-> hist.ff50_nonzero \/ (a = \hFF50 /\ v # 0),
                      ram_enable |-> IF a <= \h1FFF THEN v % 16 = \h0A
                                     ELSE hist.ram_enable]
    /\ UNCHANGED <<ppu, cpu, obs, rest>>

NextMMU == MmuWrite8

SpecMMU == InitMMU /\ [][NextMMU]_vars

----------------------------------------------------------------------------
(* Specification SpecWord: a program writes bytes and 16-bit words through *)
(* the MMU (LD (nn),SP and PUSH use write_16, lr35902.rs 977-1012).  The   *)
(* words go to addresses whose two bytes lie in one region of the map.     *)

WordAddrs == {\h2000, \hA000, \hC000, \hFF45, \hFF46, \hFF80}

WordVals == {\h0000, \hC102, \h0A01}

MmuWrite16 ==
    /\ ~mmu.panicked
    /\ hist.ops < MaxOps
    /\ \E a \in WordAddrs, w \in WordVals :
          /\ mmu' = write_16(mmu, a, w, cpu.overflow_checks)
          /\ hist' = [hist EXCEPT !.ops = hist.ops + 1, !.op = "write_16",
                                  !.addr = a, !.val = w, !.pre = mmu]
    /\ UNCHANGED <<ppu, cpu, obs, rest>>

NextWord == MmuWrite8 \/ MmuWrite16

SpecWord == InitMMU /\ [][NextWord]_vars

----------------------------------------------------------------------------
(* Specification SpecPPU: the coordinator steps the PPU each time the      *)
(* ticks of its last step have elapsed (dmg.rs 103-120: one loop           *)
(* iteration per T-cycle, TickCoordinator::tick / wait_for), while the     *)
(* program writes LCD and interrupt registers in between.                  *)

MaxClock == 141000

LineTicks == 80 + 172 + 204
FrameTicks == 154 * LineTicks

PpuRegWrites ==
    {<<\hFF41, \hFF>>, <<\hFF41, \h00>>, <<\hFFFF, \h03>>, <<\hFFFF, \h00>>,
     <<\hFF40, \h80>>, <<\hFF40, \h00>>, <<\hFF0F, \h00>>,
     <<\hFF41, \h40>>, <<\hFF45, \h91>>}

InitPPU ==
    /\ mmu = MemoryMapUnit_new(CartridgeROM_new)
    /\ hist = HistInit
    /\ ppu = PixelProcessingUnit_new
    /\ cpu = LR35902_new
    /\ obs = ObsInit
    /\ RestInit

\* the PPU step that falls due at T-cycle obs.ppu_due
PpuStep ==
    /\ ~mmu.panicked
    /\ obs.ppu_due < MaxClock
    /\ \E r \in {ppu_step(ppu, mmu)} :
          /\ ppu' = r.ppu
          /\ mmu' = r.mmu
          /\ obs' = [obs EXCEPT !.ppu_at = obs.ppu_due,
                                !.ppu_due = obs.ppu_due + r.ticks]
    /\ UNCHANGED <<hist, cpu, rest>>

\* an instruction of the program stores a byte in a register
CpuWriteReg ==
    /\ ~mmu.panicked
    /\ obs.ppu_due < MaxClock
    /\ \E w \in PpuRegWrites :
          /\ read_8(mmu, w[1]) # w[2]
          /\ mmu' = write_8(mmu, w[1], w[2])
    /\ UNCHANGED <<hist, ppu, cpu, obs, rest>>

NextPPU == PpuStep \/ CpuWriteReg

SpecPPU == InitPPU /\ [][NextPPU]_vars

----------------------------------------------------------------------------
(* Specification SpecCPU: the coordinator steps the CPU (dmg.rs 109-112)   *)
(* while the PPU requests interrupts (ppu.rs 56-82 writes FF0F).  The CPU  *)
(* starts at the first byte of work RAM, where one opcode of the program   *)
(* lies, with the stack in work RAM, in high RAM or across FF0F and FF10.  *)

MaxSteps == 2

ProgramStart == \hC000
ProgramOpcodes == {\h00, \h76, \hF3, \hFB, \hFF}  \* NOP, HALT, DI, EI, RST 38
StackTops == {\hFFFE, \hC102, \hFF11}
InterruptMasks == {\h00, \h01, \h06, \h1F, \hF4, \hE0}

InitCPU ==
    /\ \E op \in ProgramOpcodes, ie \in InterruptMasks, iflag \in InterruptMasks :
          mmu = write_8(write_8(write_8(MemoryMapUnit_new(CartridgeROM_new),
                                        ProgramStart, op),
                                \hFFFF, ie),
                        \hFF0F, iflag)
    /\ \E sp \in StackTops, ime \in BOOLEAN, halted \in BOOLEAN, oc \in BOOLEAN :
          cpu = [LR35902_new EXCEPT !.registers.pc = ProgramStart,
                                    !.registers.sp = sp,
                                    !.ime = ime, !.halted = halted,
                                    !.overflow_checks = oc]
    /\ hist = HistInit
    /\ ppu = PixelProcessingUnit_new
    /\ obs = ObsInit
    /\ RestInit

CpuStep ==
    /\ ~mmu.panicked
    /\ hist.ops < MaxSteps
    /\ CanStep(cpu, mmu)
    /\ \E r \in {cpu_step(cpu, mmu)} :
          /\ cpu' = r.cpu
          /\ mmu' = r.mmu
          /\ obs' = [obs EXCEPT !.cpu_pre = cpu, !.ticks = r.ticks,
                                !.fetched = r.fetched,
                                !.prev = [cpu |-> obs.cpu_pre,
                                          fetched |-> obs.fetched]]
    /\ hist' = [hist EXCEPT !.ops = hist.ops + 1, !.op = "step", !.pre = mmu]
    /\ UNCHANGED <<ppu, rest>>

\* the PPU requests the VBlank or the LCD-STAT interrupt
RaiseInterrupt ==
    /\ ~mmu.panicked
    /\ hist.ops < MaxSteps
    /\ \E request \in {VBLANKBIT, LCDBIT} :
          /\ ~Has(read_8(mmu, \hFF0F), request)
          /\ mmu' = write_8(mmu, \hFF0F, Or8(read_8(mmu, \hFF0F), request))
    /\ hist' = [hist EXCEPT !.op = "raise"]
    /\ UNCHANGED <<ppu, cpu, obs, rest>>

NextCPU == CpuStep \/ RaiseInterrupt

SpecCPU == InitCPU /\ [][NextCPU]_vars

----------------------------------------------------------------------------
(* Specification SpecStack: the CPU steps through two stack instructions   *)
(* (any two of PUSH rr and POP rr), with the stack in work RAM, at the top *)
(* of high RAM or wrapping around the address space.                       *)

StackOpcodes == {\hC1, \hC5, \hD1, \hD5, \hE1, \hE5, \hF1, \hF5}
StackPointers == {\h0000, \hC100, \hC102, \hFFFE}
StackBytes == {\h00, \hFF}
AfValues == {\h0000, \h12B0}

InitStack ==
    /\ \E first \in StackOpcodes, second \in StackOpcodes, low \in StackBytes :
          mmu = write_8(write_8(write_8(write_8(MemoryMapUnit_new(CartridgeROM_new),
                                                ProgramStart, first),
                                        ProgramStart + 1, second),
                                WramPage, low),
                        WramPage + 1, \h12)
    /\ \E sp \in StackPointers, af \in AfValues, oc \in BOOLEAN :
          cpu = [LR35902_new EXCEPT !.registers =
                                        [af |-> af, bc |-> \h3456, de |-> \h789A,
                                         hl |-> \hBCDE, sp |-> sp,
                                         pc |-> ProgramStart],
                                    !.overflow_checks = oc]
    /\ hist = HistInit
    /\ ppu = PixelProcessingUnit_new
    /\ obs = ObsInit
    /\ RestInit

NextStack == CpuStep

SpecStack == InitStack /\ [][NextStack]_vars

----------------------------------------------------------------------------
(* Specification SpecAlu: the coordinator steps the CPU through an         *)
(* arithmetic or bit-test instruction at the first byte of work RAM.  The  *)
(* operand value lies in B, at the address in HL and in the byte after the *)
(* opcode (where a CB opcode lies instead), so that the register, (HL) and *)
(* immediate forms read the same value.                                    *)

\* SUB, SBC, CP on B, (HL), n; INC and DEC on B and (HL); the CB prefix
AluOpcodes ==
    {\h90, \h96, \hD6, \h98, \h9E, \hDE, \hB8, \hBE, \hFE,
     \h04, \h34, \h05, \h35, \hCB}

\* BIT n,B and BIT n,(HL)
BitOpcodes == {\h40 + 8 * n + r : n \in 0..7, r \in {0, 6}}

AluValues == {\h00, \h01, \h0F, \h10, \h7F, \h80, \hFF}
AluFlags == {\h00, \h10, \hE0}

InitAlu ==
    /\ \E opcode \in AluOpcodes, value \in AluValues :
          \E second \in IF opcode = \hCB THEN BitOpcodes ELSE {value} :
             mmu = write_8(write_8(write_8(MemoryMapUnit_new(CartridgeROM_new),
                                           ProgramStart, opcode),
                                   ProgramStart + 1, second),
                           WramPage, value)
             /\ \E a \in AluValues, f \in AluFlags :
                   cpu = [LR35902_new EXCEPT !.registers.pc = ProgramStart,
                                             !.registers.sp = \hFFFE,
                                             !.registers.af = Word(f, a),
                                             !.registers.bc = Word(0, value),
                                             !.registers.hl = WramPage]
    /\ hist = HistInit
    /\ ppu = PixelProcessingUnit_new
    /\ obs = ObsInit
    /\ RestInit

NextAlu == CpuStep

SpecAlu == InitAlu /\ [][NextAlu]_vars

----------------------------------------------------------------------------
(* Specification SpecTimer: the coordinator ticks the timer once per       *)
(* T-cycle (dmg.rs 108) and the program writes the timer registers.  The   *)
(* timer starts as the writes of a program's set-up leave it.              *)

MaxTicks == 2050
MaxTimerWrites == 1

TimerAddrs == {\hFF04, \hFF05, \hFF06, \hFF07}
TimerVals == {\h00, \hA5}
TimerControls == {\h00, \h04, \h05, \h06, \h07}

\* the tick counts at which the program writes: at a multiple of 256, just
\* after one, just before one and in between
WriteMoments == {0, 1, 255, 300}

InitTimer ==
    /\ \E tac \in TimerControls :
          timer = Timer_write_8(Timer_write_8(Timer_write_8(Timer_new, \hFF07, tac),
                                              \hFF05, \hFE),
                                \hFF06, \h80)
    /\ mmu = MemoryMapUnit_new(CartridgeROM_new)
    /\ hist = HistInit
    /\ ppu = PixelProcessingUnit_new
    /\ cpu = LR35902_new
    /\ obs = ObsInit
    /\ image = ImageNone
    /\ joypad = Joypad_new
    /\ dmg = DotMatrixGame_new

TimerTick ==
    /\ timer.tick_counter < MaxTicks
    /\ \E r \in {Timer_tick(timer)} :
          /\ timer' = r.timer
          /\ obs' = [obs EXCEPT !.raise_interrupt = r.raise_interrupt,
                                !.counted_at =
                                    IF r.raise_interrupt
                                       \/ r.timer.counter # timer.counter
                                    THEN r.timer.tick_counter ELSE @]
    /\ UNCHANGED <<mmu, hist, ppu, cpu, image, joypad, dmg>>

TimerWrite ==
    /\ obs.timer_writes < MaxTimerWrites
    /\ timer.tick_counter \in WriteMoments
    /\ \E address \in TimerAddrs, value \in TimerVals :
          /\ timer' = Timer_write_8(timer, address, value)
          /\ obs' = [obs EXCEPT !.timer_writes = obs.timer_writes + 1,
                                !.div_reset_at = IF address = \hFF04
                                                 THEN timer.tick_counter
                                                 ELSE obs.div_reset_at,
                                !.counted_at = IF address = \hFF07 THEN 0 ELSE @,
                                !.timer_written = address]
    /\ UNCHANGED <<mmu, hist, ppu, cpu, image, joypad, dmg>>

NextTimer == TimerTick \/ TimerWrite

SpecTimer == InitTimer /\ [][NextTimer]_vars

----------------------------------------------------------------------------
(* Specification SpecJoypad: the host presses and releases buttons and the *)
(* program writes and reads the joypad register.                           *)

SelectVals == {\h00, \h10, \h20, \h30, \hEF}

InitJoypad ==
    /\ joypad = Joypad_new
    /\ mmu = MemoryMapUnit_new(CartridgeROM_new)
    /\ hist = HistInit
    /\ ppu = PixelProcessingUnit_new
    /\ cpu = LR35902_new
    /\ obs = ObsInit
    /\ image = ImageNone
    /\ timer = Timer_new
    /\ dmg = DotMatrixGame_new

ButtonPressed ==
    /\ ~mmu.panicked
    /\ \E button \in DmgButtons : joypad' = button_pressed(joypad, button)
    /\ UNCHANGED <<mmu, hist, ppu, cpu, obs, image, timer, dmg>>

ButtonReleased ==
    /\ ~mmu.panicked
    /\ \E button \in DmgButtons : joypad' = button_released(joypad, button)
    /\ UNCHANGED <<mmu, hist, ppu, cpu, obs, image, timer, dmg>>

JoypadWrite ==
    /\ ~mmu.panicked
    /\ \E value \in SelectVals :
          /\ IF Joypad_write_panics(value)
             THEN mmu' = [mmu EXCEPT !.panicked = TRUE] /\ joypad' = joypad
             ELSE mmu' = mmu /\ joypad' = Joypad_write(joypad, value)
          /\ obs' = [obs EXCEPT !.select_written = (value \div 16) % 4]
    /\ UNCHANGED <<hist, ppu, cpu, image, timer, dmg>>

NextJoypad == ButtonPressed \/ ButtonReleased \/ JoypadWrite

SpecJoypad == InitJoypad /\ [][NextJoypad]_vars

----------------------------------------------------------------------------
(* Specification SpecDMG: the core thread runs start_game (dmg.rs 94-147)  *)
(* while the host thread sends messages over the channel (gui.rs, and      *)
(* main.rs 38 for Close, the last message of the host).  The CPU starts at *)
(* the first byte of work RAM, where one opcode of the program lies,       *)
(* followed by NOPs.  FrameQuota stands for the 69905 iterations of the    *)
(* loop of the normal flow; the core starts at most MaxFrames frames and   *)
(* the host sends at most MaxSent messages.                                *)

FrameQuota == 6
MaxFrames == 2
MaxSent == 2

DmgPrograms == {\h00, \h76, \hD3}  \* NOP, HALT, an unused opcode
StepCounts == {1, 2}
HostButtons == {"A", "Up"}

HostMessages ==
    {Close, RequestState, StepMode(TRUE), StepMode(FALSE)}
    \cup {NextInstruction(n) : n \in StepCounts}
    \cup {PressedMessage(b) : b \in HostButtons}
    \cup {ReleasedMessage(b) : b \in HostButtons}

InitDMG ==
    /\ \E op \in DmgPrograms :
          mmu = write_8(MemoryMapUnit_new(CartridgeROM_new), ProgramStart, op)
    /\ cpu = [LR35902_new EXCEPT !.registers.pc = ProgramStart,
                                 !.registers.sp = \hFFFE]
    /\ hist = HistInit
    /\ ppu = PixelProcessingUnit_new
    /\ obs = ObsInit
    /\ RestInit

\* the host thread sends one of messages, at most max in all; Close is its
\* last
HostSends(messages, max) ==
    /\ obs.sent < max
    /\ ~obs.close_sent
    /\ \E message \in messages :
          /\ dmg' = [dmg EXCEPT !.rx = Append(@, message)]
          /\ obs' = [obs EXCEPT !.sent = @ + 1,
                                !.close_sent = (message = Close)]
    /\ hist' = [hist EXCEPT !.op = "send"]
    /\ UNCHANGED <<mmu, ppu, cpu, image, timer, joypad>>

HostSend == HostSends(HostMessages, MaxSent)

\* the core takes the result of an operation of start_game
CoreBecomes(r) ==
    /\ dmg' = r.dmg
    /\ mmu' = r.mmu
    /\ cpu' = r.cpu
    /\ ppu' = r.ppu
    /\ timer' = r.timer
    /\ joypad' = r.joypad
    /\ image' = image

\* handle_gui_messages receives one message
Receive ==
    /\ ~mmu.panicked
    /\ dmg.at = "poll"
    /\ dmg.rx # <<>>
    /\ \E r \in {received(Core)} : CoreBecomes(r)
    /\ obs' = [obs EXCEPT !.step_requested = @ + Head(dmg.rx).count,
                          !.step_outside =
                              @ \/ (Head(dmg.rx).kind = "NextInstruction"
                                    /\ ~dmg.step_mode),
                          !.snapshots_pre = dmg.snapshots,
                          !.state_requests =
                              IF Head(dmg.rx) = RequestState THEN @ + 1 ELSE @]
    /\ hist' = [hist EXCEPT !.op = "receive", !.pre = mmu, !.ops = 1 - @]

\* handle_gui_messages finds the channel empty and a flow starts
PollDone ==
    /\ ~mmu.panicked
    /\ dmg.at = "poll"
    /\ dmg.rx = <<>>
    /\ dmg.step_mode => dmg.next_step
    /\ ~dmg.step_mode => obs.frames < MaxFrames
    /\ \E r \in {polled(Core)} : CoreBecomes(r)
    /\ obs' = [obs EXCEPT !.frames = IF dmg.step_mode THEN @ ELSE @ + 1]
    /\ hist' = [hist EXCEPT !.op = "poll", !.pre = mmu, !.ops = 1 - @]

\* what an iteration of the normal flow leaves in obs.pace: the iterations
\* started, the iteration of the last CPU step and of the last PPU step and
\* the ticks each gave to wait_for
Paced(p, r) ==
    [clock |-> p.clock + 1,
     cpu_at |-> IF tick_due(dmg.cpu_ticks) THEN p.clock + 1 ELSE p.cpu_at,
     cpu_cost |-> IF tick_due(dmg.cpu_ticks) THEN r.dmg.cpu_ticks ELSE p.cpu_cost,
     ppu_at |-> IF tick_due(dmg.ppu_ticks) /\ ~r.mmu.panicked
                THEN p.clock + 1 ELSE p.ppu_at,
     ppu_cost |-> IF tick_due(dmg.ppu_ticks) /\ ~r.mmu.panicked
                  THEN r.dmg.ppu_ticks ELSE p.ppu_cost]

\* one iteration of the loop of the normal flow, of quota iterations
Cycles(quota) ==
    /\ ~mmu.panicked
    /\ dmg.at = "frame"
    /\ tick_due(dmg.cpu_ticks) => CanStep(cpu, mmu)
    /\ \E r \in {cycle(Core, quota)} :
          /\ CoreBecomes(r)
          /\ obs' = [obs EXCEPT !.cpu_pre = cpu,
                                !.fetched = tick_due(dmg.cpu_ticks) /\ ~cpu.halted,
                                !.snapshots_pre = dmg.snapshots,
                                !.pace = Paced(@, r)]
    /\ hist' = [hist EXCEPT !.op = "cycle", !.pre = mmu, !.ops = 1 - @]

Cycle == Cycles(FrameQuota)

\* one iteration of the loop of the step flow
StepOne ==
    /\ ~mmu.panicked
    /\ dmg.at = "stepping"
    /\ CanStep(cpu, mmu)
    /\ \E r \in {step_once(Core)} : CoreBecomes(r)
    /\ obs' = [obs EXCEPT !.cpu_pre = cpu,
                          !.fetched = ~cpu.halted,
                          !.step_calls = @ + 1,
                          !.snapshots_pre = dmg.snapshots]
    /\ hist' = [hist EXCEPT !.op = "step_once", !.pre = mmu, !.ops = 1 - @]

CoreNext == Receive \/ PollDone \/ Cycle \/ StepOne

NextDMG == HostSend \/ CoreNext

SpecDMG == InitDMG /\ [][NextDMG]_vars

\* the core thread can run: one of the four actions of the core is enabled
CoreCanRun ==
    /\ ~mmu.panicked
    /\ \/ dmg.at = "poll" /\ dmg.rx # <<>>
       \/ /\ dmg.at = "poll" /\ dmg.rx = <<>>
          /\ dmg.step_mode => dmg.next_step
          /\ ~dmg.step_mode => obs.frames < MaxFrames
       \/ dmg.at = "frame" /\ (tick_due(dmg.cpu_ticks) => CanStep(cpu, mmu))
       \/ dmg.at = "stepping" /\ CanStep(cpu, mmu)

\* a step of the core, told by what the four actions record in hist: the
\* operation, the MMU before it and the parity of the number of steps
CoreOps == {"receive", "poll", "cycle", "step_once"}
CoreRuns ==
    /\ CoreCanRun
    /\ \E op \in CoreOps :
          hist' = [hist EXCEPT !.op = op, !.pre = mmu, !.ops = 1 - @]

\* the operating system schedules the core thread: it runs whenever it can
FairDMG == SpecDMG /\ WF_hist(CoreRuns)

----------------------------------------------------------------------------
(* Specification SpecStep: the core thread runs start_game while the host  *)
(* switches the mode and asks for steps, with at most MaxStepSent          *)
(* messages.                                                               *)

MaxStepSent == 3

StepMessages ==
    {StepMode(TRUE), StepMode(FALSE)} \cup {NextInstruction(n) : n \in StepCounts}

StepSend == HostSends(StepMessages, MaxStepSent)

NextStep == StepSend \/ Receive \/ PollDone \/ Cycle \/ StepOne

SpecStep == InitDMG /\ [][NextStep]_vars

----------------------------------------------------------------------------
(* Specification SpecSnap: the core thread runs start_game on a cartridge  *)
(* of either supported type, built from an image from_file accepts, while  *)
(* the host asks for the state with at most MaxSnapSent messages.          *)

MaxSnapSent == 2

SnapCartridges ==
    {CartridgeROM_new, [CartridgeROM_new EXCEPT !.rom_len = \h10000],
     CartridgeMBC1_new(\h8000, 0), CartridgeMBC1_new(\h10000, 2)}

SnapMessages == {RequestState, StepMode(TRUE), NextInstruction(1)}

InitSnap ==
    /\ \E op \in DmgPrograms, cartridge \in SnapCartridges :
          mmu = write_8(MemoryMapUnit_new(cartridge), ProgramStart, op)
    /\ cpu = [LR35902_new EXCEPT !.registers.pc = ProgramStart,
                                 !.registers.sp = \hFFFE]
    /\ hist = HistInit
    /\ ppu = PixelProcessingUnit_new
    /\ obs = ObsInit
    /\ RestInit

SnapSend == HostSends(SnapMessages, MaxSnapSent)

NextSnap == SnapSend \/ Receive \/ PollDone \/ Cycle \/ StepOne

SpecSnap == InitSnap /\ [][NextSnap]_vars

----------------------------------------------------------------------------
(* Specification SpecPace: the core thread runs the normal flow of         *)
(* start_game with no message from the host, for MaxFrames frames of       *)
(* PaceQuota iterations (69905 in dmg.rs), long enough for the second step *)
(* of the PPU to fall in the second frame.  The program is one opcode      *)
(* followed by NOPs.                                                       *)

PaceQuota == 45

\* NOP, PUSH BC, POP BC, HALT, an unused opcode
PacePrograms == {\h00, \hC5, \hC1, \h76, \hD3}

InitPace ==
    /\ \E op \in PacePrograms :
          mmu = write_8(MemoryMapUnit_new(CartridgeROM_new), ProgramStart, op)
    /\ cpu = [LR35902_new EXCEPT !.registers.pc = ProgramStart,
                                 !.registers.sp = \hFFFE]
    /\ hist = HistInit
    /\ ppu = PixelProcessingUnit_new
    /\ obs = ObsInit
    /\ RestInit

PaceCycle == Cycles(PaceQuota)

NextPace == PollDone \/ PaceCycle

SpecPace == InitPace /\ [][NextPace]_vars

----------------------------------------------------------------------------
(* Specification SpecCost: the ticks next_instruction returns, for every   *)
(* opcode, every opcode after the CB prefix and every value of the zero    *)
(* and carry flags.                                                        *)

Opcodes == 0..255
FlagValues == {\h00, \h10, \h80, \h90}

InitCost ==
    /\ mmu = MemoryMapUnit_new(CartridgeROM_new)
    /\ \E f \in FlagValues : cpu = [LR35902_new EXCEPT !.registers.af = f]
    /\ hist = HistInit
    /\ ppu = PixelProcessingUnit_new
    /\ \E opcode \in Opcodes, cb_opcode \in Opcodes :
          /\ PrimaryHandlers[opcode + 1] # "prefix_cb" => cb_opcode = 0
          /\ obs = [ObsInit EXCEPT !.opcode = opcode, !.cb_opcode = cb_opcode]
    /\ RestInit

\* next_instruction decodes the opcode and returns the ticks of its handler
TakeCost ==
    /\ hist.op = "none"
    /\ IF instruction_panics(obs.opcode)
       THEN /\ mmu' = [mmu EXCEPT !.panicked = TRUE]
            /\ obs' = obs
       ELSE /\ mmu' = mmu
            /\ obs' = [obs EXCEPT !.ticks = instruction_ticks(obs.opcode, obs.cb_opcode, cpu)]
    /\ hist' = [hist EXCEPT !.ops = 1, !.op = "cost"]
    /\ UNCHANGED <<ppu, cpu, rest>>

NextCost == TakeCost

SpecCost == InitCost /\ [][NextCost]_vars

----------------------------------------------------------------------------
(* Specification SpecCart: a cartridge is constructed from a ROM file of   *)
(* any length and header.                                                  *)

ImageLens == {0, \h7FFF, \h8000, \h10000}
MbcBytes == {\h00, \h01, \h02, \h03, \h04, \hFF}
RomSizeBytes == {\h00, \h01, \h1E, \h1F, \hFF}
RamSizeBytes == {\h00, \h01, \h02, \h03, \h04, \h05, \h06, \hFF}

InitCart ==
    /\ \E len \in ImageLens, mbc \in MbcBytes, rom_size \in RomSizeBytes,
          ram_size \in RamSizeBytes, oc \in BOOLEAN :
          image = [len |-> len, mbc |-> mbc, rom_size |-> rom_size,
                   ram_size |-> ram_size, overflow_checks |-> oc,
                   outcome |-> "none"]
    /\ mmu = MemoryMapUnit_new(CartridgeROM_new)
    /\ hist = HistInit
    /\ ppu = PixelProcessingUnit_new
    /\ cpu = LR35902_new
    /\ obs = ObsInit
    /\ timer = Timer_new
    /\ joypad = Joypad_new
    /\ dmg = DotMatrixGame_new

Construct ==
    /\ image.outcome = "none"
    /\ image' = [image EXCEPT !.outcome = from_file(image)]
    /\ UNCHANGED <<mmu, hist, ppu, cpu, obs, timer, joypad, dmg>>

NextCart == Construct

SpecCart == InitCart /\ [][NextCart]_vars

----------------------------------------------------------------------------
(* Claims about the CPU, under SpecCPU and SpecCost.                       *)

\* the step that led to the current state
StepRan == hist.op = "step" /\ ~mmu.panicked

\* the numbers 0..4 of the interrupts enabled in IE and pending in IF before
\* the step that led to the current state
PendingBefore ==
    {n \in 0..4 : Bit(read_8(hist.pre, \hFFFF), n) = 1 /\ Bit(read_8(hist.pre, \hFF0F), n) = 1}

LowestPending == CHOOSE n \in PendingBefore : \A j \in PendingBefore : n <= j

\* C1: a step taken with IME set and an interrupt both enabled and pending
\* services the lowest-numbered such interrupt: it clears IME and that bit of
\* IF and no other, lowers SP by 2 and stores the PC there (read back from
\* the cells of the stack the model stores, other than IF itself), sets PC
\* to 0x40 + 8 * bit, leaves HALT, returns 20 and fetches no opcode.
C1_InterruptDispatch ==
    (StepRan /\ obs.cpu_pre.ime /\ PendingBefore # {}) =>
        /\ ~cpu.ime
        /\ read_8(mmu, \hFF0F) = read_8(hist.pre, \hFF0F) - 2 ^ LowestPending
        /\ cpu.registers.sp = obs.cpu_pre.registers.sp - 2
        /\ \A k \in {0, 1} :
              (cpu.registers.sp + k \in DOMAIN mmu.memory \ {\hFF0F}) =>
                  read_8(mmu, cpu.registers.sp + k)
                      = (obs.cpu_pre.registers.pc \div (256 ^ k)) % 256
        /\ cpu.registers.pc = \h40 + 8 * LowestPending
        /\ ~cpu.halted
        /\ obs.ticks = 20
        /\ ~obs.fetched

\* C1 witness: a halted CPU with IME set and all five interrupts pending, of
\* which the LCD-STAT interrupt is the lowest enabled, has serviced it
C1_Witness ==
    /\ StepRan /\ obs.cpu_pre.ime /\ obs.cpu_pre.halted
    /\ read_8(hist.pre, \hFF0F) = \h1F
    /\ read_8(hist.pre, \hFFFF) = \h06
    /\ cpu.registers.pc = \h48
    /\ read_8(mmu, \hFF0F) = \h1D
    /\ obs.ticks = 20

\* the canonical T-cycle cost of the instruction with the given opcode (and
\* opcode after the CB prefix) when the zero and carry flags are as given;
\* x, y, z are the octal digits of the opcode
CanonicalTicks(opcode, cb_opcode, zero, carry) ==
    LET x == opcode \div 64
        y == (opcode \div 8) % 8
        z == opcode % 8
        taken == (CASE y % 4 = 0 -> ~zero
                    [] y % 4 = 1 -> zero
                    [] y % 4 = 2 -> ~carry
                    [] y % 4 = 3 -> carry)
        cx == cb_opcode \div 64
        cz == cb_opcode % 8
    IN  CASE opcode = \hCB -> IF cz # 6 THEN 8 ELSE IF cx = 1 THEN 12 ELSE 16
          [] opcode = \h76 -> 4
          [] x = 0 /\ z = 0 -> (CASE y = 0 -> 4
                                  [] y = 1 -> 20
                                  [] y = 2 -> 4
                                  [] y = 3 -> 12
                                  [] y >= 4 -> IF taken THEN 12 ELSE 8)
          [] x = 0 /\ z = 1 -> IF y % 2 = 0 THEN 12 ELSE 8
          [] x = 0 /\ z \in {2, 3} -> 8
          [] x = 0 /\ z \in {4, 5} -> IF y = 6 THEN 12 ELSE 4
          [] x = 0 /\ z = 6 -> IF y = 6 THEN 12 ELSE 8
          [] x = 0 /\ z = 7 -> 4
          [] x = 1 /\ opcode # \h76 -> IF y = 6 \/ z = 6 THEN 8 ELSE 4
          [] x = 2 -> IF z = 6 THEN 8 ELSE 4
          [] x = 3 /\ z = 0 -> (CASE y < 4 -> IF taken THEN 20 ELSE 8
                                  [] y \in {4, 6, 7} -> 12
                                  [] y = 5 -> 16)
          [] x = 3 /\ z = 1 -> (CASE y % 2 = 0 -> 12
                                  [] y \in {1, 3} -> 16
                                  [] y = 5 -> 4
                                  [] y = 7 -> 8)
          [] x = 3 /\ z = 2 -> (CASE y < 4 -> IF taken THEN 16 ELSE 12
                                  [] y \in {4, 6} -> 8
                                  [] y \in {5, 7} -> 16)
          [] x = 3 /\ z = 3 /\ opcode # \hCB -> IF y = 0 THEN 16 ELSE 4
          [] x = 3 /\ z = 4 -> IF taken THEN 24 ELSE 12
          [] x = 3 /\ z = 5 -> IF y = 1 THEN 24 ELSE 16
          [] x = 3 /\ z = 6 -> 8
          [] x = 3 /\ z = 7 -> 16

\* C7: the ticks returned for every opcode and every opcode after the CB
\* prefix are the canonical ones, and a conditional JR, JP, CALL or RET
\* returns the longer cost exactly when its condition is true.
C7_CanonicalCost ==
    (hist.op = "cost" /\ ~mmu.panicked) =>
        obs.ticks = CanonicalTicks(obs.opcode, obs.cb_opcode,
                                   Bit(Lo(cpu.registers.af), 7) = 1,
                                   Bit(Lo(cpu.registers.af), 4) = 1)

\* C13: in every state of the CPU, bits 0-3 of register F are zero.
C13_FlagLowNibble == Lo(cpu.registers.af) % 16 = 0

\* work RAM and high RAM
InPlainRam(a) == (a >= \hC000 /\ a <= \hDFFF) \/ (a >= \hFF80 /\ a <= \hFFFE)

\* the last two steps fetched PUSH and POP of pair number k (0 BC, 1 DE, 2 HL,
\* 3 AF) from ProgramStart on, with the two bytes below SP in plain RAM (in
\* cells of it the model stores)
PushedThenPopped(k) ==
    /\ StepRan /\ obs.fetched /\ obs.prev.fetched
    /\ obs.prev.cpu.registers.pc = ProgramStart
    /\ obs.cpu_pre.registers.pc = ProgramStart + 1
    /\ read_8(mmu, ProgramStart) = \hC5 + 16 * k
    /\ read_8(mmu, ProgramStart + 1) = \hC1 + 16 * k
    /\ InPlainRam(Wrap16(obs.prev.cpu.registers.sp - 2))
    /\ InPlainRam(Wrap16(obs.prev.cpu.registers.sp - 1))
    /\ \A d \in {1, 2} : Wrap16(obs.prev.cpu.registers.sp - d) \in DOMAIN mmu.memory

\* C14: PUSH rr immediately followed by POP rr, with the two stack bytes in
\* plain RAM, leaves rr and SP as they were before the PUSH, for rr any of
\* BC, DE, HL, AF.
C14_PushPopRestores ==
    \A k \in 0..3 :
        PushedThenPopped(k) =>
            /\ cpu.registers[StackPair(\hC1 + 16 * k)]
                  = obs.prev.cpu.registers[StackPair(\hC1 + 16 * k)]
            /\ cpu.registers.sp = obs.prev.cpu.registers.sp

\* C14 witness: AF = 12B0 was pushed at the top of high RAM and popped again
C14_Witness ==
    /\ PushedThenPopped(3)
    /\ obs.prev.cpu.registers.sp = \hFFFE
    /\ obs.cpu_pre.registers.sp = \hFFFC
    /\ read_8(mmu, \hFFFC) = \hB0 /\ read_8(mmu, \hFFFD) = \h12
    /\ cpu.registers.af = \h12B0
    /\ cpu.registers.sp = \hFFFE

\* C26: a step taken while halted with IME clear and an interrupt both
\* enabled and pending leaves HALT without servicing: IF, SP and PC stay as
\* they were and the CPU is no longer halted.
C26_HaltWakes ==
    (StepRan /\ obs.cpu_pre.halted /\ ~obs.cpu_pre.ime /\ PendingBefore # {}) =>
        /\ ~cpu.halted
        /\ read_8(mmu, \hFF0F) = read_8(hist.pre, \hFF0F)
        /\ cpu.registers.sp = obs.cpu_pre.registers.sp
        /\ cpu.registers.pc = obs.cpu_pre.registers.pc

\* the last step fetched the opcode of EI
EiRan ==
    /\ StepRan /\ obs.fetched
    /\ read_8(hist.pre, obs.cpu_pre.registers.pc) = \hFB

\* C27: the step that executes EI with IME clear leaves IME clear: IME is set
\* only once the instruction after EI has completed.
C27_EiDelayed == (EiRan /\ ~obs.cpu_pre.ime) => ~cpu.ime

\* the first step of the program ran a handler of forms
AluRan(forms) ==
    /\ StepRan
    /\ obs.fetched
    /\ obs.cpu_pre.registers.pc = ProgramStart
    /\ PrimaryHandlers[read_8(hist.pre, ProgramStart) + 1] \in forms

\* the operand before the step, A before it and the flags after it
OperandBefore == read_8(hist.pre, WramPage)
ABefore == get_8(obs.cpu_pre, "a")
FlagSet(c, flag) == Bit(get_8(c, "f"), flag) # 0

\* the carry-in of SBC; SUB and CP take none
CarryIn ==
    IF PrimaryHandlers[read_8(hist.pre, ProgramStart) + 1] \in SbcForms
       /\ get_carry_flag(obs.cpu_pre)
    THEN 1 ELSE 0

\* C37: SUB, CP and SBC in their register, (HL) and immediate forms leave in
\* A (unchanged for CP) and in Z, N, H, C what an 8-bit subtract with borrow
\* of the operand and, for SBC, of the carry-in gives: N = 1, H the borrow
\* from bit 4, C the borrow from bit 8, Z on a zero result.
C37_Subtract ==
    AluRan(SubForms \cup SbcForms \cup CpForms) =>
        /\ get_8(cpu, "a") =
               IF PrimaryHandlers[read_8(hist.pre, ProgramStart) + 1] \in CpForms
               THEN ABefore
               ELSE (ABefore - OperandBefore - CarryIn + 512) % 256
        /\ FlagSet(cpu, ZFLAGBIT)
               <=> (ABefore - OperandBefore - CarryIn + 512) % 256 = 0
        /\ FlagSet(cpu, NFLAGBIT)
        /\ FlagSet(cpu, HFLAGBIT)
               <=> (ABefore % 16) - (OperandBefore % 16) - CarryIn < 0
        /\ FlagSet(cpu, CFLAGBIT) <=> ABefore - OperandBefore - CarryIn < 0

\* the operand of INC and DEC after the step: B for 04 and 05, the byte at
\* the address in HL for 34 and 35
IncDecResult ==
    IF read_8(hist.pre, ProgramStart) \in {\h04, \h05} THEN get_8(cpu, "b")
    ELSE read_8(mmu, WramPage)

IsDec == PrimaryHandlers[read_8(hist.pre, ProgramStart) + 1] \in {"dec_8", "dec_8_at"}

\* C38: INC and DEC of a register or of (HL) leave C as it was, set N = 0
\* for INC and N = 1 for DEC, H on the carry out of or the borrow into the
\* low nibble, and Z exactly when the 8-bit result is zero.
C38_IncDec ==
    AluRan(IncDecForms) =>
        /\ IncDecResult = (OperandBefore + (IF IsDec THEN 255 ELSE 1)) % 256
        /\ FlagSet(cpu, CFLAGBIT) <=> FlagSet(obs.cpu_pre, CFLAGBIT)
        /\ FlagSet(cpu, NFLAGBIT) <=> IsDec
        /\ FlagSet(cpu, HFLAGBIT)
               <=> OperandBefore % 16 = (IF IsDec THEN 0 ELSE 15)
        /\ FlagSet(cpu, ZFLAGBIT) <=> IncDecResult = 0

\* the bit number of the CB opcode after the prefix
BitNumber == (read_8(hist.pre, ProgramStart + 1) \div 8) % 8

\* C39: BIT n,r and BIT n,(HL) set Z exactly when bit n of the operand is 0,
\* set N = 0 and H = 1 and leave C and the operand as they were.
C39_BitTest ==
    AluRan({"prefix_cb"}) =>
        /\ FlagSet(cpu, ZFLAGBIT) <=> Bit(OperandBefore, BitNumber) = 0
        /\ ~FlagSet(cpu, NFLAGBIT)
        /\ FlagSet(cpu, HFLAGBIT)
        /\ FlagSet(cpu, CFLAGBIT) <=> FlagSet(obs.cpu_pre, CFLAGBIT)
        /\ get_8(cpu, "b") = OperandBefore
        /\ read_8(mmu, WramPage) = OperandBefore

----------------------------------------------------------------------------
(* Claims about the MMU, under SpecMMU.                                    *)

InEcho(a) == a >= \hE000 /\ a <= \hFDFF
InUnusable(a) == a >= \hFEA0 /\ a <= \hFEFF

\* the byte a read of address a returns in the current state, -1 for a panic
ReadNow(a) == IF mmu.panicked \/ read_panics(mmu, a) THEN -1 ELSE read_8(mmu, a)

\* address a and value v of the write that led to the current state
JustWrote(a, v) == hist.op = "write_8" /\ hist.addr = a /\ hist.val = v

RamPresent(c, a) == RamIndex(c, a) < c.ram_len

OverlayAddrs == {\h00, \hFF}

\* C9: while FF50 has only ever held zero, reads of 0000-00FF return boot-ROM
\* bytes; once a nonzero value has been written to FF50 they come from the
\* cartridge for good, whatever is written afterwards.
C9_BootRomLatch ==
    \A a \in OverlayAddrs :
        /\ ~hist.ff50_nonzero /\ ~mmu.panicked => ReadNow(a) = BootRomByte(a)
        /\ hist.ff50_nonzero /\ ~mmu.panicked => ReadNow(a) = cart_read_8(mmu.cartridge, a)

OamEnd == \h9F + 1

\* C10: a write of s to FF46 makes FE00+i read what s<<8+i read, for every i
\* in 0..159, and changes no other byte of the address space.
C10_DmaCopies160 ==
    \A s \in WriteVals :
        (JustWrote(\hFF46, s) /\ ~mmu.panicked) =>
            /\ \A i \in DmaOffsets :
                  i < OamEnd => ReadNow(OamBase + i) = read_8(hist.pre, s * 256 + i)
            /\ \A a \in MemAddrs :
                  ~(a >= OamBase /\ a < OamBase + OamEnd)
                      => MemCell(mmu, a) = MemCell(hist.pre, a)
            /\ mmu.cartridge = hist.pre.cartridge

BankSelectAddrs == {\h2000, \h3FFF}
BankedAddrs == {\h4000, \h7FFF}

\* bank the claim names for a written value: its low five bits, 1 when zero
NamedBank(v) == IF v % 32 = 0 THEN 1 ELSE v % 32

\* C11: on an MBC1 cartridge, after a write of v to an address in 2000-3FFF,
\* read8(addr) returns ROM[b * 0x4000 + (addr - 0x4000)] for every addr in
\* 4000-7FFF, with b the low five bits of v, or 1 when they are zero.
C11_RomBankRead ==
    \A s \in BankSelectAddrs, v \in WriteVals :
        (JustWrote(s, v) /\ hist.pre.cartridge.kind = "MBC1")
        => \A addr \in BankedAddrs :
              ReadNow(addr) = RomByte(NamedBank(v) * \h4000 + (addr - \h4000))

\* the banks of 0x4000 bytes the ROM image holds, as header byte 0148 gives
RomBankCount(c) == c.rom_len \div \h4000

\* C33: on an MBC1 cartridge, after any writes, selected_rom_bank is at least
\* 1 and below the bank count, so every read in 4000-7FFF indexes inside the
\* ROM image.
C33_RomBankInRange ==
    mmu.cartridge.kind = "MBC1" =>
        /\ mmu.cartridge.selected_rom_bank >= 1
        /\ mmu.cartridge.selected_rom_bank < RomBankCount(mmu.cartridge)
        /\ \A addr \in BankedAddrs : RomIndex(mmu.cartridge, addr) < mmu.cartridge.rom_len

CartRamAddrs == {\hA000, \hBFFF}

\* C34: on an MBC1 cartridge a read of A000-BFFF returns FF unless the last
\* write to 0000-1FFF had low nibble A, and then the RAM byte at
\* selected_ram_bank * 0x2000 + (addr - 0xA000).
C34_RamEnable ==
    (mmu.cartridge.kind = "MBC1" /\ ~mmu.panicked) =>
        \A addr \in CartRamAddrs :
            ReadNow(addr) = IF hist.ram_enable
                            THEN RamCell(mmu.cartridge,
                                         mmu.cartridge.selected_ram_bank * \h2000
                                             + (addr - \hA000))
                            ELSE \hFF

\* the addresses of the cartridge's ranges that are read
ContractAddrs ==
    {\h0000, \h1FFF, \h2000, \h3FFF, \h4000, \h7FFF, \hA000, \hBFFF}

\* C35: no write to the cartridge's ranges ends the core, and a read of any
\* address of them returns, for either cartridge type in every bank state.
C35_NoCartridgeFault ==
    /\ ~mmu.panicked
    /\ \A addr \in ContractAddrs : ~read_panics(mmu, addr)

\* the two byte writes the claim composes a word write of
write_16_bytes(m, a, w) == write_8(write_8(m, a, Lo(w)), a + 1, Hi(w))

\* C36: write16(a, v) leaves the address space and every subsystem as
\* write8(a, v & 0xFF) followed by write8(a+1, v >> 8) does, for every a whose
\* two bytes lie in one region, FF45 and FF46 included; and read16(a) is
\* read8(a) | (read8(a+1) << 8).
C36_WordIsTwoBytes ==
    /\ hist.op = "write_16" =>
           mmu = write_16_bytes(hist.pre, hist.addr, hist.val)
    /\ \A a \in WordAddrs :
           (~mmu.panicked /\ ~read_panics(mmu, a) /\ ~read_panics(mmu, a + 1)) =>
               read_16(mmu, a) = read_8(mmu, a) + 256 * read_8(mmu, a + 1)

\* the addresses whose snapshot byte is compared: the overlay, both ROM
\* halves, cartridge RAM, the cells of the memory array the model stores
SnapshotAddrs ==
    {\h0000, \h00FF, \h0100, \h4000, \h7FFF, \hA000, \hBFFF} \cup MemAddrs

\* C22: the Memory snapshot holds at every address the byte a read through
\* the MMU returns at the time of the request, the boot-ROM overlay, the
\* selected ROM bank, cartridge RAM and FF00 included.
C22_SnapshotIsView ==
    (~mmu.panicked /\ ~get_memory_dump_panics(mmu)) =>
        \A a \in SnapshotAddrs :
            ~read_panics(mmu, a) => get_memory_dump(mmu, a) = read_8(mmu, a)

----------------------------------------------------------------------------
(* Claims about the construction of a cartridge, under SpecCart.           *)

\* the errors the claim names for a file
NamedErrors(img) ==
    (IF img.len < \h8000 THEN {"InvalidRomSize"} ELSE {})
    \cup (IF img.mbc \notin {0, 1, 2, 3} THEN {"UnimplementedMBC"} ELSE {})
    \cup (IF img.ram_size \notin {0, 2, 3, 4, 5} THEN {"InvalidHeader"} ELSE {})

\* C12: construction fails with InvalidRomSize for a file shorter than
\* 0x8000, with UnimplementedMBC for a byte 0147 outside 00..03, with
\* InvalidHeader for a byte 0149 outside {00, 02, 03, 04, 05} whatever the
\* MBC type, and succeeds in every other case (where several of the three
\* apply, any of them is accepted).
C12_ConstructionErrors ==
    image.outcome # "none" =>
        IF NamedErrors(image) = {} THEN image.outcome = "Ok"
        ELSE image.outcome \in NamedErrors(image)

----------------------------------------------------------------------------
(* Claims about the timer, under SpecTimer.                                *)

\* T-cycles since the last write of FF04
SinceDivReset == timer.tick_counter - obs.div_reset_at

\* C15: after a write of any value to FF04 a read of FF04 returns 0 until
\* 256 T-cycles have passed, and then one more for every further 256
\* T-cycles, wrapping from FF to 00.
C15_DivReset ==
    obs.div_reset_at >= 0 =>
        Timer_read_8(timer, \hFF04) = (SinceDivReset \div 256) % 256

\* the T-cycles per increment of TIMA for bits 0-1 of the value read at FF07
TacPeriod(tac) ==
    CASE tac % 4 = 0 -> 1024
      [] tac % 4 = 1 -> 16
      [] tac % 4 = 2 -> 64
      [] tac % 4 = 3 -> 256

\* TIMA was counted by the tick: one more, or reloaded on overflow
TimaCounted ==
    \/ timer'.counter = timer.counter + 1
    \/ timer.counter = \hFF /\ obs'.raise_interrupt

\* C29: while bit 2 of TAC is set, a tick either leaves TIMA alone or counts
\* it, the count that follows a count under the same TAC comes exactly 1024,
\* 16, 64 or 256 T-cycles later for bits 0-1 = 00, 01, 10, 11, and no count
\* is overdue; while bit 2 is clear no tick changes TIMA.
C29_TimaPeriod ==
    /\ [][timer'.tick_counter # timer.tick_counter =>
            IF Bit(Timer_read_8(timer, \hFF07), 2) # 0
            THEN /\ obs'.counted_at = obs.counted_at => timer'.counter = timer.counter
                 /\ obs'.counted_at # obs.counted_at => TimaCounted
                 /\ (obs'.counted_at # obs.counted_at /\ obs.counted_at > 0) =>
                        obs'.counted_at - obs.counted_at
                            = TacPeriod(Timer_read_8(timer, \hFF07))
            ELSE /\ timer'.counter = timer.counter
                 /\ obs'.counted_at = obs.counted_at]_vars
    /\ []((Bit(Timer_read_8(timer, \hFF07), 2) # 0 /\ obs.counted_at > 0) =>
            timer.tick_counter - obs.counted_at
                < TacPeriod(Timer_read_8(timer, \hFF07)))

\* C29 witness: with TAC = 04 and no write since, TIMA was counted at T-cycle
\* 1024 and again at 2048, from FE through FF to the reload
C29_Witness ==
    /\ Timer_read_8(timer, \hFF07) = \h04
    /\ obs.timer_writes = 0
    /\ timer.tick_counter = 2048
    /\ obs.counted_at = 2048
    /\ obs.raise_interrupt

\* C30: the tick that overflows TIMA from FF leaves 00 in TIMA and raises no
\* interrupt; TIMA reads 00 until the reload with TMA and the raise of the
\* Timer interrupt four T-cycles later.
C30_ReloadDelayed ==
    [][(timer'.tick_counter # timer.tick_counter
        /\ timer.enable
        /\ timer.counter = \hFF
        /\ timer'.tick_counter % timer.selected_clock = 0) =>
           /\ Timer_read_8(timer', \hFF05) = \h00
           /\ ~obs'.raise_interrupt]_vars

\* the signal of the edge detector: the timer enabled and the divider bit of
\* half the selected period set in the T-cycle counter
TimerSignal(t) ==
    t.enable /\ (t.tick_counter % t.selected_clock) >= t.selected_clock \div 2

\* the signal after the write: a write of DIV clears the divider, a write of
\* TAC selects the bit and the enable anew
SignalAfterWrite == obs'.timer_written # \hFF04 /\ TimerSignal(timer')

\* C31: a write of TAC or of DIV that takes the signal (enable and selected
\* divider bit) from 1 to 0 counts TIMA once at the write.
C31_FallingEdge ==
    [][(obs'.timer_writes # obs.timer_writes
        /\ obs'.timer_written \in {\hFF04, \hFF07}
        /\ TimerSignal(timer)
        /\ ~SignalAfterWrite) =>
           timer'.counter = IF timer.counter = \hFF THEN timer.modulo
                            ELSE timer.counter + 1]_vars

----------------------------------------------------------------------------
(* Claims about the joypad, under SpecJoypad.                              *)

\* what a read of the joypad register returns, -1 when the write before it
\* ended the core
JoypadReadNow == IF mmu.panicked THEN -1 ELSE Joypad_read(joypad)

\* C16: after a write of select bits s (bit 0 for register bit 4, bit 1 for
\* bit 5) a read returns s in bits 4-5 and in bits 0-3 the AND of the selected
\* halves: both masks when s = 0, the nibble F when s = 3, one of the two
\* masks when one select bit is 0; every s can be written and then read.
C16_JoypadRead ==
    obs.select_written >= 0 =>
        /\ JoypadReadNow >= 0
        /\ (JoypadReadNow \div 16) % 4 = obs.select_written
        /\ CASE obs.select_written = 0 ->
                    JoypadReadNow % 16 = And8(joypad.d_pad, joypad.buttons)
             [] obs.select_written = 3 -> JoypadReadNow % 16 = \h0F
             [] OTHER -> JoypadReadNow % 16 \in {joypad.d_pad, joypad.buttons}

----------------------------------------------------------------------------
(* Claims about the coordinator, under SpecDMG, FairDMG and SpecStep.      *)

UnusedOpcodes ==
    {\hD3, \hDB, \hDD, \hE3, \hE4, \hEB, \hEC, \hED, \hF4, \hFC, \hFD}

\* the last step of the core was a CPU step that fetched an unused opcode
IllegalFetched ==
    /\ hist.op \in {"cycle", "step_once"}
    /\ obs.fetched
    /\ read_8(hist.pre, obs.cpu_pre.registers.pc) \in UnusedOpcodes

\* C17: when the CPU fetches one of the eleven unused opcodes the fault
\* reaches the coordinator, which sends a final snapshot to the host and
\* exits: the core does not stop without notifying the host.
C17_FatalReported ==
    IllegalFetched =>
        /\ ~mmu.panicked
        /\ dmg.at = "returned"
        /\ dmg.snapshots = obs.snapshots_pre + 1

\* the messages waiting in rx were not received by the step
NothingReceived ==
    /\ Len(dmg'.rx) >= Len(dmg.rx)
    /\ SubSeq(dmg'.rx, 1, Len(dmg.rx)) = dmg.rx

\* the step had none of the effects of a host message
NoHostEffect ==
    /\ joypad' = joypad
    /\ Has(read_8(mmu', \hFF0F), JOYPADBIT) = Has(read_8(mmu, \hFF0F), JOYPADBIT)
    /\ dmg'.step_mode = dmg.step_mode
    /\ dmg'.next_step = dmg.next_step
    /\ dmg'.step_count = dmg.step_count
    /\ dmg'.snapshots = dmg.snapshots
    /\ dmg'.at # "returned"

\* C18: while the core is inside the iterations of a frame quota no step
\* reads the channel and no host message takes effect: button presses, the
\* mode switch, step requests, snapshot requests and Close wait in the
\* channel until the frame is over.
C18_MessagesBetweenFrames ==
    [][dmg.at = "frame" => (NothingReceived /\ NoHostEffect)]_vars

\* C18 witness: a button press waits in the channel while the first frame has
\* run two CPU steps, and the joypad is as constructed
C18_Witness ==
    /\ dmg.at = "frame" /\ hist.op = "cycle"
    /\ obs.frames = 1
    /\ cpu.registers.pc = ProgramStart + 2
    /\ dmg.rx # <<>> /\ Head(dmg.rx) = PressedMessage("A")
    /\ joypad = Joypad_new

\* C19: once the host has sent Close the core, unless a panic ended it,
\* eventually returns Ok from start_game, in the normal and in the step flow;
\* it starts no flow after Close was sent (the frame in progress is the
\* last), and on return the trace is written exactly when the CPU has a
\* tracer.
C19_CloseStops ==
    /\ (obs.close_sent /\ ~mmu.panicked) ~> (dmg.at = "returned" \/ mmu.panicked)
    /\ [][(obs.close_sent /\ dmg.at = "poll")
          => dmg'.at \in {"poll", "returned"}]_vars
    /\ [](dmg.at = "returned" => dmg.trace_written = cpu.tracer)

\* C19 witness: the core returned after a Close sent while it was in step
\* mode, having run a frame before
C19_Witness ==
    /\ dmg.at = "returned"
    /\ obs.close_sent
    /\ dmg.step_mode
    /\ obs.frames >= 1
    /\ ~mmu.panicked

\* the core is in step mode and pauses: it waits for a message
Paused ==
    /\ ~mmu.panicked
    /\ dmg.at = "poll"
    /\ dmg.step_mode
    /\ ~dmg.next_step

\* C20: in step mode every Step(n) message causes exactly n calls of the
\* CPU's step: when the core pauses, and every Step message was received in
\* step mode, the calls made in the step flow are as many as the messages
\* asked for.
C20_StepRunsN ==
    (Paused /\ ~obs.step_outside) => obs.step_calls = obs.step_requested

\* C21: every RequestState message the core received was answered by one
\* RegistersStatus and one MemoryState message, and the core runs on, with a
\* no-MBC and with an MBC1 cartridge of every accepted size.
C21_SnapshotPerRequest ==
    /\ dmg.registers_sent = obs.state_requests
    /\ dmg.snapshots = obs.state_requests
    /\ obs.state_requests > 0 => ~mmu.panicked

\* the half of the button is the one FF00 selects, and the button is released
PressFalls(j, button) ==
    /\ j.select_mode = (IF ButtonHalf(button) = "d_pad" THEN "DirectionalPad"
                        ELSE "Buttons")
    /\ Bit(j[ButtonHalf(button)], ButtonBit(button)) # 0

\* C32: the core receiving ButtonPressed raises bit 4 of IF exactly when the
\* press takes a bit of the selected half from 1 to 0, not when the half is
\* not selected or the button is already held.
C32_JoypadInterrupt ==
    [][(hist'.op = "receive"
        /\ dmg.rx # <<>>
        /\ Head(dmg.rx).kind = "ButtonPressed"
        /\ Bit(read_8(mmu, \hFF0F), 4) = 0) =>
           (Bit(read_8(mmu', \hFF0F), 4) # 0
               <=> PressFalls(joypad, Head(dmg.rx).button))]_vars

\* the step after a step that gave cost to wait_for comes cost iterations
\* later: at, at' and cost are the iteration of the step before, of the last
\* step and the ticks of the step before
PacedBy(at, cost, next) == (next # at /\ at > 0 /\ cost >= 1) => next = at + cost

\* no step is overdue after clock iterations
NotOverdue(at, cost, clock) == (at > 0 /\ cost >= 1) => clock < at + cost

\* C28: every iteration of the normal flow ticks the timer once, then steps
\* the CPU if its debt has run out, then the PPU if its debt has run out (a
\* panic of the CPU step comes after the tick and before the PPU step); the
\* step after a CPU or PPU step of cost c >= 1 comes exactly c iterations
\* later, in the same frame or in the next.
C28_Pacing ==
    /\ [][obs'.pace.clock # obs.pace.clock =>
            /\ timer'.tick_counter = timer.tick_counter + 1
            /\ PacedBy(obs.pace.cpu_at, obs.pace.cpu_cost, obs'.pace.cpu_at)
            /\ PacedBy(obs.pace.ppu_at, obs.pace.ppu_cost, obs'.pace.ppu_at)]_vars
    /\ [](~mmu.panicked =>
            /\ NotOverdue(obs.pace.cpu_at, obs.pace.cpu_cost, obs.pace.clock)
            /\ NotOverdue(obs.pace.ppu_at, obs.pace.ppu_cost, obs.pace.clock))
    /\ []((mmu.panicked /\ hist.op = "cycle") =>
            /\ timer.tick_counter = obs.pace.clock
            /\ obs.pace.cpu_at = obs.pace.clock
            /\ obs.pace.ppu_at < obs.pace.clock)

\* C28 witness: in the second frame, the iteration 80 after the first step of
\* the PPU steps it again, and steps the CPU 4 after a NOP that followed the
\* 16 of PUSH BC
C28_Witness ==
    /\ obs.frames = 2
    /\ obs.pace.clock = 81
    /\ obs.pace.ppu_at = 81 /\ ppu.mode = HBlank
    /\ obs.pace.cpu_at = 81 /\ obs.pace.cpu_cost = 4
    /\ read_8(mmu, ProgramStart) = \hC5
    /\ cpu.registers.pc = ProgramStart + 18

\* C40: an iteration of the step flow that follows a CPU step with cost c
\* still owed (c >= 1) ticks the timer c times and advances the PPU by c
\* T-cycles, as the c iterations of the normal flow between the two CPU steps
\* do: when no PPU step falls due within them, the PPU's debt falls by c.
C40_StepAsNormal ==
    [][(hist'.op = "step_once" /\ hist'.ops # hist.ops
        /\ dmg.cpu_ticks >= 1 /\ ~mmu'.panicked) =>
           /\ timer'.tick_counter = timer.tick_counter + dmg.cpu_ticks
           /\ dmg.ppu_ticks > dmg.cpu_ticks =>
                  /\ dmg'.ppu_ticks = dmg.ppu_ticks - dmg.cpu_ticks
                  /\ ppu' = ppu]_vars

----------------------------------------------------------------------------
(* Claims about the PPU, under SpecPPU.                                    *)

Stat == read_8(mmu, \hFF41)
LY == read_8(mmu, \hFF44)
IFlag == read_8(mmu, \hFF0F)
LcdOn(m) == Has(read_8(m, \hFF40), \h80)

\* the T-cycles the current state lasts for: from the last PPU step to the next
Now == obs.ppu_at .. (obs.ppu_due - 1)

ModeAtDot(dot) ==
    IF dot < 80 THEN OAMSearch ELSE IF dot < 252 THEN PixelTransfer ELSE HBlank

\* C2: on every visible scanline the mode in FF41 bits 0-1 is 2 during the
\* first 80 T-cycles of the line, 3 during the next 172 and 0 during the
\* last 204.
C2_ModeByDot ==
    \A t \in {obs.ppu_at, obs.ppu_due - 1} :
        (t \in Now /\ (t % FrameTicks) \div LineTicks \in Lines) =>
            /\ ppu.mode = ModeAtDot(t % LineTicks)
            /\ Stat % 4 = ModeAtDot(t % LineTicks)

\* C3: 70,224 T-cycles after LY = 0 with mode OAMSearch, LY is 0 and the mode
\* OAMSearch again and exactly one Frame message has been sent in between,
\* frame after frame; the PPU is stepped at each of these frame boundaries.
C3_FramePeriod ==
    /\ obs.ppu_due % FrameTicks = 0 =>
          /\ ppu.mode = OAMSearch
          /\ ppu.line_to_draw = 0
          /\ LY = 0
          /\ ppu.sent = obs.ppu_due \div FrameTicks
    /\ obs.ppu_due > obs.ppu_at =>
          /\ obs.ppu_at \div FrameTicks = (obs.ppu_due - 1) \div FrameTicks
          /\ ppu.sent \in {obs.ppu_at \div FrameTicks, obs.ppu_at \div FrameTicks + 1}

\* C3 witness: the second frame boundary, two Frame messages sent
C3_Witness ==
    /\ obs.ppu_due = 2 * FrameTicks
    /\ ppu.sent = 2
    /\ ppu.mode = OAMSearch /\ LY = 0

\* C4: whenever FF44 holds a line in 144..153 the mode is VBlank and FF41
\* bits 0-1 read 1.
C4_VBlankLines ==
    (LY >= 144 /\ LY <= 153) => (ppu.mode = VBlank /\ Stat % 4 = VBlank)

\* C5: in every state, the reset state and the states after a write to FF41
\* included, FF41 bits 0-1 hold the number of the PPU's mode.
C5_StatMirrorsMode == Stat % 4 = ppu.mode

\* C6: while LCDC bit 7 is clear a PPU step raises no VBlank bit in IF and
\* leaves the framebuffer as it was.
C6_LcdOffIdle ==
    [][(/\ ~LcdOn(mmu) /\ ~LcdOn(mmu')
        /\ obs'.ppu_due # obs.ppu_due)
       => /\ ppu'.pixel_buffer = ppu.pixel_buffer
          /\ Bit(read_8(mmu', \hFF0F), 0) <= Bit(read_8(mmu, \hFF0F), 0)]_vars

\* the PPU step entered VBlank
EntersVBlank == ppu.mode # VBlank /\ ppu'.mode = VBlank

\* C23: every step that takes the PPU into VBlank leaves bit 0 of IF set,
\* whatever IE holds, and changes no other bit of IF, except bit 1 when the
\* VBlank source of STAT is enabled.
C23_VBlankRaisesIF ==
    [][EntersVBlank =>
          /\ Has(read_8(mmu', \hFF0F), VBLANKBIT)
          /\ AndNot8(read_8(mmu', \hFF0F), VBLANKBIT + LCDBIT)
                = AndNot8(read_8(mmu, \hFF0F), VBLANKBIT + LCDBIT)
          /\ (Has(read_8(mmu', \hFF0F), LCDBIT) # Has(read_8(mmu, \hFF0F), LCDBIT))
                => Has(read_8(mmu', \hFF41), LCDC_VBLANK)]_vars

\* C24: a Render message is sent in exactly the steps that take the PPU into
\* VBlank, one message per step.
C24_FrameAtVBlank ==
    [][/\ (ppu'.sent # ppu.sent) <=> EntersVBlank
       /\ ppu'.sent \in {ppu.sent, ppu.sent + 1}]_vars

\* C25: with the coincidence source of STAT and the LCD bit of IE set, a
\* step that makes FF44 equal to FF45 leaves bit 1 of IF set, for every line
\* 0..153.
C25_LycCoincidence ==
    [][(/\ read_8(mmu', \hFF44) # read_8(mmu, \hFF44)
        /\ read_8(mmu', \hFF44) = read_8(mmu', \hFF45)
        /\ Has(read_8(mmu', \hFF41), LCDC_LYC)
        /\ Has(read_8(mmu', \hFFFF), LCDBIT))
       => Has(read_8(mmu', \hFF0F), LCDBIT)]_vars

====
